---- MODULE Spec2Model ----
(***************************************************************************)
(* Verification model of pols_robot: the momentum exit strategy            *)
(* (trading_strategy.py), the KuCoin limit-order adapter                   *)
(* (kucoin_exchange.py), the Telegram sink (telegram_notifier.py) and the  *)
(* polling loop (main.py).                                                 *)
(*                                                                         *)
(* Numbers.  Prices are integers counted in units of 0.0001 USDT (the      *)
(* four decimals the adapter formats a limit price with).  Ratios that the *)
(* code computes in floating point are compared exactly, by cross          *)
(* multiplication; a quotient the code stores is kept as [num, den].       *)
(* Optional values (Python None) are the empty sequence, a value x is <<x>>.*)
(*                                                                         *)
(* A failing price fetch stands for any exception raised inside the try    *)
(* block of update_price_history, DataFrame.append included; where the     *)
(* fetch succeeds, append and rolling().mean() behave as documented.       *)
(***************************************************************************)
EXTENDS Integers, Sequences, FiniteSets, TLC

(***************************************************************************)
(* Program constants (trading_strategy.py, TradingStrategy.__init__).      *)
(***************************************************************************)
MA_PERIODS == 10
PRICE_INCREASE_THRESHOLD_PCT == 10
DROP_THRESHOLD_PCT == 2
LIMIT_ORDER_OFFSET_PCT == 1
ORDER_SIZE == 10
HISTORY_CAPACITY == 100

(***************************************************************************)
(* Program constants of the arbitrage evaluation (telegram_notifier.py):   *)
(* fees in 1/10000, the alert threshold in 1/100 of a percent.             *)
(***************************************************************************)
KUCOIN_FEE_E4 == 10
PANCAKESWAP_FEE_E4 == 25
ARBITRAGE_THRESHOLD_E2 == 50

(***************************************************************************)
(* Bounds of the model.                                                    *)
(***************************************************************************)
MaxTicks == 13
WarmTicks == 8
MaxHistTicks == 103
HistFailEvery == 40
MaxCycles == 2

Prices == {8900, 9799, 9800, 9900, 10000, 10200}
Balances == {5, 10}
BasePrice == CHOOSE p \in Prices : \A q \in Prices : p <= q

None == <<>>
Some(x) == <<x>>
Val(o) == o[1]

Max(a, b) == IF a >= b THEN a ELSE b

VARIABLES
  price_history,   \* TradingStrategy.price_history: sequence of [timestamp, price]
  is_monitoring,   \* TradingStrategy.is_monitoring
  highest_price,   \* TradingStrategy.highest_price: None or Some(price)
  now,             \* the clock read by datetime.now(), one step per tick or cycle
  orders,          \* limit orders accepted by the exchange client
  sent,            \* messages delivered to the chat by bot.send_message
  coroutines,      \* send_message coroutine objects created and never awaited
  observed,        \* history: every entry update_price_history ever appended
  armed_at,        \* history: timestamp of the tick that armed the running episode
  ticks,           \* history: number of check_and_update invocations
  last,            \* history: what the last check_and_update did
  cycle,           \* history: what the last polling cycle or chat operation did
  venue,           \* the source read by an adapter and the quote it last returned
  config,          \* pols_quantity of the two adapters and of the notifier, arbitrage_threshold
  user_data,       \* context.user_data of the chat: action, awaiting_amount, amount
  dialog,          \* history: buttons offered, replies and orders of the on-demand flow
  loop,            \* position of main's polling task and what its cycle has read
  process,         \* environment of the process and how far main's start-up got
  chain,           \* the wallet's allowance and the transactions sent to the chain
  updates          \* the chat's updates waiting to be handled and the handler that runs

vars == <<price_history, is_monitoring, highest_price, now, orders, sent,
          coroutines, observed, armed_at, ticks, last, cycle, venue,
          config, user_data, dialog, loop, process, chain, updates>>

\* main.py line 22
POLS_QUANTITY == 1000

\* The variables of the chat, the polling task, the start-up and the chain.
ext == <<config, user_data, dialog, loop, process, chain, updates>>

StrategyState == <<price_history, is_monitoring, highest_price>>

(***************************************************************************)
(* Outcomes of the collaborators' calls.                                   *)
(***************************************************************************)
Ok(v) == [ok |-> TRUE, v |-> v]
Raise == [ok |-> FALSE, v |-> 0]

PriceOutcomes == {Ok(p) : p \in Prices} \cup {Raise}
BalanceOutcomes == {Ok(b) : b \in Balances} \cup {Raise}
\* client.create_limit_order: raises, returns nothing, or returns the order dict
ClientResponses == {"raise", "none", "order"}

(***************************************************************************)
(* TradingStrategy.update_price_history, the part after the price fetch:   *)
(* append (now, price), keep the last 100 rows.                            *)
(***************************************************************************)
TailRows(h, n) == SubSeq(h, Len(h) - n + 1, Len(h))

update_price_history_drop_newest(h, t, p) ==
  LET a == Append(h, [timestamp |-> t, price |-> p])
  IN IF Len(a) > HISTORY_CAPACITY THEN SubSeq(a, 1, HISTORY_CAPACITY) ELSE a

update_price_history(h, t, p) ==
  LET a == Append(h, [timestamp |-> t, price |-> p])
  IN IF Len(a) > HISTORY_CAPACITY THEN TailRows(a, HISTORY_CAPACITY) ELSE a

(***************************************************************************)
(* TradingStrategy.calculate_ma: None under MA_PERIODS rows, else the mean *)
(* of the last MA_PERIODS prices, kept as num/den.                         *)
(***************************************************************************)
RECURSIVE SumPrices(_, _, _)
SumPrices(h, i, j) == IF i > j THEN 0 ELSE h[i].price + SumPrices(h, i + 1, j)

calculate_ma_whole_history(h) ==
  IF Len(h) < MA_PERIODS THEN None
  ELSE Some([num |-> SumPrices(h, 1, Len(h)), den |-> Len(h)])

calculate_ma(h) ==
  IF Len(h) < MA_PERIODS THEN None
  ELSE Some([num |-> SumPrices(h, Len(h) - MA_PERIODS + 1, Len(h)),
             den |-> MA_PERIODS])

(***************************************************************************)
(* price_increase > PRICE_INCREASE_THRESHOLD, with                         *)
(* price_increase = (current_price - ma) / ma   (ma > 0).                  *)
(***************************************************************************)
PriceIncreaseReached(p, ma) ==
  (p * ma.den - ma.num) * 100 >= PRICE_INCREASE_THRESHOLD_PCT * ma.num

PriceIncreaseExceeds(p, ma) ==
  (p * ma.den - ma.num) * 100 > PRICE_INCREASE_THRESHOLD_PCT * ma.num

(***************************************************************************)
(* if current_price > self.highest_price: self.highest_price = current     *)
(***************************************************************************)
RatchetFollowsPrice(hp, p) == p

Ratchet(hp, p) == IF p > hp THEN p ELSE hp

(***************************************************************************)
(* price_drop >= DROP_THRESHOLD, with                                      *)
(* price_drop = (highest_price - current_price) / highest_price.           *)
(***************************************************************************)
DropExceeds(hp, p) == (hp - p) * 100 > DROP_THRESHOLD_PCT * hp

DropTriggered(hp, p) == (hp - p) * 100 >= DROP_THRESHOLD_PCT * hp

(***************************************************************************)
(* limit_price = current_price * (1 - LIMIT_ORDER_OFFSET)                  *)
(***************************************************************************)
LimitPriceAbove(p) == [num |-> p * (100 + LIMIT_ORDER_OFFSET_PCT), den |-> 100]

LimitPrice(p) == [num |-> p * (100 - LIMIT_ORDER_OFFSET_PCT), den |-> 100]

BalanceSufficesAlways(b) == TRUE

BalanceSuffices(b) == b >= ORDER_SIZE

(***************************************************************************)
(* f"{price:.4f}": the nearest multiple of 0.0001, a tie going to the even *)
(* neighbour.                                                              *)
(***************************************************************************)
FormatPrice(r) ==
  LET q == r.num \div r.den
      m == r.num % r.den
  IN IF 2 * m > r.den THEN q + 1
     ELSE IF 2 * m < r.den THEN q
     ELSE IF q % 2 = 0 THEN q ELSE q + 1

(***************************************************************************)
(* KucoinExchange.create_limit_order(symbol, side, size, price): reads the *)
(* balance again, raises on a shortfall, formats the price and calls the   *)
(* client.  b2 is the outcome of its get_balance, r the client's response. *)
(* Result: raised, the returned order (None or Some), and the calls made.  *)
(***************************************************************************)
create_limit_order(symbol, side, size, price, b2, r) ==
  IF ~b2.ok
    THEN [raised |-> TRUE, order |-> None, calls |-> <<"get_balance">>]
  ELSE IF side = "sell" /\ b2.v < size
    THEN [raised |-> TRUE, order |-> None, calls |-> <<"get_balance">>]
  ELSE IF r = "raise"
    THEN [raised |-> TRUE, order |-> None,
          calls |-> <<"get_balance", "client.create_limit_order">>]
  ELSE IF r = "none"
    THEN [raised |-> FALSE, order |-> None,
          calls |-> <<"get_balance", "client.create_limit_order">>]
  ELSE [raised |-> FALSE,
        order |-> Some([symbol |-> symbol, side |-> side, size |-> size,
                        price |-> price, wire_price |-> FormatPrice(price)]),
        calls |-> <<"get_balance", "client.create_limit_order">>]

(***************************************************************************)
(* The except block of check_and_update: is_monitoring = False,            *)
(* highest_price = None.  The row appended by update_price_history stays.  *)
(***************************************************************************)
ExceptHandlerKeepsPeak(h, hp) ==
  [price_history |-> h, is_monitoring |-> FALSE, highest_price |-> Some(hp)]

ExceptHandler(h, hp) ==
  [price_history |-> h, is_monitoring |-> FALSE, highest_price |-> None]

(***************************************************************************)
(* TelegramNotifier.send_message is a coroutine function.  check_and_update*)
(* is a plain function and calls it without await: the call builds a       *)
(* coroutine object, runs none of its body, and the object is dropped.     *)
(* The result is what the call adds to (sent, coroutines).                 *)
(***************************************************************************)
send_message_not_awaited(kind) == [sent |-> <<>>, coroutines |-> <<kind>>]

(***************************************************************************)
(* TradingStrategy.check_and_update as a function of the state S before    *)
(* the tick, the clock t and the collaborators' outcomes:                  *)
(*   q  kucoin.get_price_info().current_price                              *)
(*   b  kucoin.get_balance() of the strategy                               *)
(*   b2 get_balance inside create_limit_order, r the client's response.    *)
(* The result holds the state after the tick and what the tick did.        *)
(***************************************************************************)
TickResult(S, q, calls, exc, armed, order, msg, place) ==
  [price_history |-> S.price_history, is_monitoring |-> S.is_monitoring,
   highest_price |-> S.highest_price,
   price |-> IF q.ok THEN Some(q.v) ELSE None,
   calls |-> calls, exc |-> exc, armed |-> armed, order |-> order,
   msg |-> msg, place |-> place]

\* IdleTick with the drop branch entered in the arming tick as well: the
\* tick that arms goes on to read the balance.
IdleTickThenDropCheck(S, t, q, h) ==
  LET ma == calculate_ma(h)
  IN IF ma # None /\ PriceIncreaseExceeds(q.v, Val(ma))
       THEN TickResult([price_history |-> h, is_monitoring |-> TRUE,
                        highest_price |-> Some(q.v)],
                       q, <<"get_price_info", "get_balance">>, FALSE, TRUE,
                       None, send_message_not_awaited("arm"), "not_called")
       ELSE TickResult([price_history |-> h, is_monitoring |-> FALSE,
                        highest_price |-> S.highest_price],
                       q, <<"get_price_info">>, FALSE, FALSE, None,
                       [sent |-> <<>>, coroutines |-> <<>>], "not_called")

IdleTick(S, t, q, h) ==
  LET ma == calculate_ma(h)
      calls == <<"get_price_info">>
  IN IF ma # None /\ PriceIncreaseExceeds(q.v, Val(ma))
       THEN TickResult([price_history |-> h, is_monitoring |-> TRUE,
                        highest_price |-> Some(q.v)],
                       q, calls, FALSE, TRUE, None,
                       send_message_not_awaited("arm"), "not_called")
       ELSE TickResult([price_history |-> h, is_monitoring |-> FALSE,
                        highest_price |-> S.highest_price],
                       q, calls, FALSE, FALSE, None,
                       [sent |-> <<>>, coroutines |-> <<>>], "not_called")

MonitoringTick(S, t, q, b, b2, r, h) ==
  LET hp == Ratchet(Val(S.highest_price), q.v)
      stay == [price_history |-> h, is_monitoring |-> TRUE,
               highest_price |-> Some(hp)]
      nomsg == [sent |-> <<>>, coroutines |-> <<>>]
  IN IF ~DropTriggered(hp, q.v)
       THEN TickResult(stay, q, <<"get_price_info">>, FALSE, FALSE, None, nomsg,
                       "not_called")
     ELSE IF ~b.ok
       THEN TickResult(ExceptHandler(h, hp), q,
                       <<"get_price_info", "get_balance">>,
                       TRUE, FALSE, None, nomsg, "not_called")
     ELSE IF ~BalanceSuffices(b.v)
       THEN TickResult(stay, q, <<"get_price_info", "get_balance">>,
                       FALSE, FALSE, None, nomsg, "not_called")
     ELSE
       LET res == create_limit_order("POLS-USDT", "sell", ORDER_SIZE,
                                     LimitPrice(q.v), b2, r)
           calls == <<"get_price_info", "get_balance", "create_limit_order">>
       IN IF res.raised
            THEN TickResult(ExceptHandler(h, hp), q, calls, TRUE, FALSE,
                            None, nomsg, "raised")
          ELSE IF res.order # None
            THEN TickResult([price_history |-> h, is_monitoring |-> FALSE,
                             highest_price |-> None],
                            q, calls, FALSE, FALSE, res.order,
                            send_message_not_awaited("order"), "order")
          ELSE TickResult(stay, q, calls, FALSE, FALSE, None, nomsg, "none")

\* check_and_update with a failed price fetch handled by the outer except
\* clause (monitoring reset) instead of the early return.
check_and_update_result_fetch_resets(S, t, q, b, b2, r) ==
  IF ~q.ok
    THEN TickResult(ExceptHandler(S.price_history, 0), q,
                    <<"get_price_info">>, TRUE, FALSE, None,
                    [sent |-> <<>>, coroutines |-> <<>>], "not_called")
  ELSE LET h == update_price_history(S.price_history, t, q.v)
       IN IF ~S.is_monitoring
            THEN IdleTick(S, t, q, h)
            ELSE MonitoringTick(S, t, q, b, b2, r, h)

check_and_update_result(S, t, q, b, b2, r) ==
  IF ~q.ok
    THEN \* update_price_history caught the error and returned None
         TickResult(S, q, <<"get_price_info">>, TRUE, FALSE, None,
                    [sent |-> <<>>, coroutines |-> <<>>], "not_called")
  ELSE LET h == update_price_history(S.price_history, t, q.v)
       IN IF ~S.is_monitoring
            THEN IdleTick(S, t, q, h)
            ELSE MonitoringTick(S, t, q, b, b2, r, h)

(***************************************************************************)
(* One invocation of check_and_update at clock `now`.                      *)
(***************************************************************************)
Strategy ==
  [price_history |-> price_history, is_monitoring |-> is_monitoring,
   highest_price |-> highest_price]

ApplyTick(q, b, b2, r) ==
  LET R == check_and_update_result(Strategy, now, q, b, b2, r)
  IN /\ price_history' = R.price_history
     /\ is_monitoring' = R.is_monitoring
     /\ highest_price' = R.highest_price
     /\ now' = now + 1
     /\ ticks' = ticks + 1
     /\ orders' = orders \o R.order
     /\ sent' = sent \o R.msg.sent
     /\ coroutines' = coroutines \o R.msg.coroutines
     /\ observed' = IF q.ok
                      THEN Append(observed, [timestamp |-> now, price |-> q.v])
                      ELSE observed
     /\ armed_at' = IF R.armed THEN Some(now)
                    ELSE IF R.is_monitoring THEN armed_at ELSE None
     /\ UNCHANGED <<cycle, venue, ext>>
     /\ last' = [op |-> "check_and_update",
                 was_monitoring |-> is_monitoring,
                 peak_before |-> highest_price,
                 price |-> R.price, calls |-> R.calls, exc |-> R.exc,
                 armed |-> R.armed, order |-> R.order, place |-> R.place,
                 balance |-> IF Len(R.calls) >= 2 /\ b.ok THEN Some(b.v) ELSE None]

\* The configuration after construction (main lines 95-97, notifier line 25)
\* and an empty context.user_data.
InitialConfig ==
  [kucoin |-> POLS_QUANTITY, pancakeswap |-> POLS_QUANTITY,
   notifier |-> POLS_QUANTITY, arbitrage_threshold |-> ARBITRAGE_THRESHOLD_E2]

NoUserData == [action |-> None, awaiting_amount |-> None, amount |-> None]

\* Nothing offered, replied or ordered in the chat yet.
NoReply == [kind |-> "none", amount |-> None]
NoPress ==
  [op |-> "none", text |-> None, button |-> None, free |-> None,
   required |-> None]
NoDialog ==
  [offered |-> {}, reply |-> NoReply, orders |-> <<>>, last |-> NoPress]

ExtIdle ==
  /\ config = InitialConfig
  /\ user_data = NoUserData
  /\ dialog = NoDialog
  /\ loop = <<>>
  /\ process = <<>>
  /\ chain = <<>>
  /\ updates = <<>>

InitStrategy ==
  /\ price_history = <<>>
  /\ is_monitoring = FALSE
  /\ highest_price = None
  /\ now = 0
  /\ orders = <<>>
  /\ sent = <<>>
  /\ coroutines = <<>>
  /\ observed = <<>>
  /\ armed_at = None
  /\ ticks = 0
  /\ last = [op |-> "init", was_monitoring |-> FALSE, peak_before |-> None,
             price |-> None, calls |-> <<>>, exc |-> FALSE, armed |-> FALSE,
             order |-> None, place |-> "not_called", balance |-> None]
  /\ cycle = [n |-> 0, op |-> "init"]
  /\ venue = <<>>
  /\ ExtIdle

(***************************************************************************)
(* The price feed of the strategy model: the market is flat at BasePrice   *)
(* for the first WarmTicks ticks, then any price of Prices or a failure.   *)
(***************************************************************************)
Feed(t) == IF t < WarmTicks THEN {Ok(BasePrice)} ELSE PriceOutcomes

\* The calls a tick makes decide which outcomes it consumes; an outcome that
\* is not consumed is fixed, so that each behaviour of the tick is drawn once.
ReadsBalance(q) ==
  /\ q.ok /\ is_monitoring
  /\ DropTriggered(Ratchet(Val(highest_price), q.v), q.v)

check_and_update ==
  /\ now < MaxTicks
  /\ \E q \in Feed(now) :
       IF ~ReadsBalance(q)
         THEN ApplyTick(q, Raise, Raise, "raise")
         ELSE \E b \in BalanceOutcomes :
                IF ~(b.ok /\ BalanceSuffices(b.v))
                  THEN ApplyTick(q, b, Raise, "raise")
                  ELSE \E b2 \in BalanceOutcomes :
                         IF ~(b2.ok /\ b2.v >= ORDER_SIZE)
                           THEN ApplyTick(q, b, b2, "raise")
                           ELSE \E r \in ClientResponses : ApplyTick(q, b, b2, r)

Init == InitStrategy
Next == check_and_update
Spec == Init /\ [][Next]_vars

(***************************************************************************)
(* The strategy under a long feed (SpecHist): a slowly rising market, one  *)
(* price per tick, the price fetch failing now and then.  It runs past the *)
(* capacity of the history.                                                *)
(***************************************************************************)
HistFeed(t) ==
  IF t > 0 /\ t % HistFailEvery = 0
    THEN {Ok(BasePrice + t), Raise}
    ELSE {Ok(BasePrice + t)}

check_and_update_long ==
  /\ now < MaxHistTicks
  /\ \E q \in HistFeed(now) :
       /\ ~ReadsBalance(q)
       /\ ApplyTick(q, Raise, Raise, "raise")

NextHist == check_and_update_long
SpecHist == Init /\ [][NextHist]_vars

(***************************************************************************)
(* The arbitrage evaluation and its gate (telegram_notifier.py).           *)
(*                                                                         *)
(* A quote is [buy_cost, sell_revenue] in USDT for the configured quantity.*)
(* Profits are kept in 1/10000 USDT, a percentage as the fraction num/den  *)
(* of hundredths of a percent, a formatted amount ({:.2f}) in cents.       *)
(* The KuCoin quote with sell_revenue above buy_cost is that of a crossed  *)
(* book; the PancakeSwap quote of zero is that of a router answering 0.    *)
(***************************************************************************)
KQuotes == {[buy_cost |-> 1000, sell_revenue |-> 990],
            [buy_cost |-> 1995, sell_revenue |-> 1990],
            [buy_cost |-> 1995, sell_revenue |-> 2040]}
PQuotes == {[buy_cost |-> 1052, sell_revenue |-> 1050],
            [buy_cost |-> 2016, sell_revenue |-> 2012],
            [buy_cost |-> 2017, sell_revenue |-> 2013],
            [buy_cost |-> 1970, sell_revenue |-> 1966],
            [buy_cost |-> 0, sell_revenue |-> 0]}
NoQuote == [buy_cost |-> 0, sell_revenue |-> 0]
RaiseQuote == [ok |-> FALSE, v |-> NoQuote]
KQuoteOutcomes == {Ok(k) : k \in KQuotes} \cup {RaiseQuote}
PQuoteOutcomes == {Ok(x) : x \in PQuotes} \cup {RaiseQuote}
CallOutcomes == {Ok(0), Raise}

Msg(kind, body) == [kind |-> kind, body |-> body]

\* await TelegramNotifier.send_message(text): what it adds to `sent`.  The
\* message is delivered when the bot is up; any failure is logged and
\* swallowed.
send_message(msg, up) == IF up THEN <<msg>> ELSE <<>>

\* f"{x:.2f}" of an amount x given in 1/10000: cents.
Format2(x_e4) == FormatPrice([num |-> x_e4, den |-> 100])

\* TelegramNotifier._calculate_arbitrage_gains, lines 399-413: the two net
\* profits, in 1/10000 USDT.
ArbitrageProfitsSellFeeOnBuyCost(k, x) ==
  [kucoin_to_pancakeswap |->
       10000 * x.sell_revenue - 10000 * k.buy_cost
         - KUCOIN_FEE_E4 * k.buy_cost - PANCAKESWAP_FEE_E4 * x.buy_cost,
   pancakeswap_to_kucoin |->
       10000 * k.sell_revenue - 10000 * x.buy_cost
         - PANCAKESWAP_FEE_E4 * x.buy_cost - KUCOIN_FEE_E4 * k.buy_cost]

ArbitrageProfits(k, x) ==
  [kucoin_to_pancakeswap |->
       10000 * x.sell_revenue - 10000 * k.buy_cost
         - KUCOIN_FEE_E4 * k.buy_cost - PANCAKESWAP_FEE_E4 * x.sell_revenue,
   pancakeswap_to_kucoin |->
       10000 * k.sell_revenue - 10000 * x.buy_cost
         - PANCAKESWAP_FEE_E4 * x.buy_cost - KUCOIN_FEE_E4 * k.sell_revenue]

\* (profit / buy_cost) * 100, lines 426, 437, 457, 458: in hundredths of a
\* percent it is profit_e4 / buy_cost.
Percentage(profit_e4, buy_cost) == [num |-> profit_e4, den |-> buy_cost]

\* (profit / buy_cost) * 100 > self.arbitrage_threshold, buy_cost > 0
PercentageReaches(profit_e4, buy_cost) ==
  profit_e4 >= ARBITRAGE_THRESHOLD_E2 * buy_cost

\* (profit / buy_cost) * 100 > arbitrage_threshold for a threshold given in
\* hundredths of a percent, buy_cost > 0.
ExceedsThreshold(profit_e4, buy_cost, arbitrage_threshold) ==
  profit_e4 > arbitrage_threshold * buy_cost

PercentageExceeds(profit_e4, buy_cost) ==
  ExceedsThreshold(profit_e4, buy_cost, ARBITRAGE_THRESHOLD_E2)

\* The text of one direction of the alert, lines 469-476 and 480-487, as
\* the list of its labelled values.  The function is given the two profits
\* and the two buy costs only.
Line(label, value) == [label |-> label, value |-> value]

AlertKucoinToPancake(profit_e4, kucoin_buy_cost, pancake_buy_cost) ==
  [direction |-> "kucoin_to_pancakeswap",
   lines |-> << Line("Achat sur kucoin", Format2(10000 * kucoin_buy_cost)),
                Line("Frais KuCoin", Format2(10 * kucoin_buy_cost)),
                Line("Transfert BSC %", -10),
                Line("Vente sur pancakeswap", Format2(10000 * pancake_buy_cost)),
                Line("Frais PancakeSwap", Format2(25 * pancake_buy_cost)),
                Line("Profit final", Format2(profit_e4)),
                Line("Profit final %",
                     FormatPrice(Percentage(profit_e4, kucoin_buy_cost))) >>]

AlertPancakeToKucoin(profit_e4, kucoin_buy_cost, pancake_buy_cost) ==
  [direction |-> "pancakeswap_to_kucoin",
   lines |-> << Line("Achat sur pancakeswap", Format2(10000 * pancake_buy_cost)),
                Line("Frais PancakeSwap", Format2(25 * pancake_buy_cost)),
                Line("Transfert BSC %", -10),
                Line("Vente sur kucoin", Format2(10000 * kucoin_buy_cost)),
                Line("Frais KuCoin", Format2(10 * kucoin_buy_cost)),
                Line("Profit final", Format2(profit_e4)),
                Line("Profit final %",
                     FormatPrice(Percentage(profit_e4, pancake_buy_cost))) >>]

\* TelegramNotifier._check_significant_arbitrage: builds one message with
\* the directions above the threshold and sends it itself; a division by
\* zero is caught and logged.  Result: the messages handed to send_message
\* and those delivered.
check_significant_arbitrage_two_alerts(g, kucoin_buy_cost, pancake_buy_cost, up) ==
  IF kucoin_buy_cost = 0 \/ pancake_buy_cost = 0
    THEN [handed |-> <<>>, sent |-> <<>>]
  ELSE
    LET a == IF PercentageExceeds(g.kucoin_to_pancakeswap, kucoin_buy_cost)
               THEN << Msg("opportunity",
                           << AlertKucoinToPancake(g.kucoin_to_pancakeswap,
                                kucoin_buy_cost, pancake_buy_cost) >>) >>
               ELSE <<>>
        b == IF PercentageExceeds(g.pancakeswap_to_kucoin, pancake_buy_cost)
               THEN << Msg("opportunity",
                           << AlertPancakeToKucoin(g.pancakeswap_to_kucoin,
                                kucoin_buy_cost, pancake_buy_cost) >>) >>
               ELSE <<>>
    IN [handed |-> a \o b, sent |-> IF up THEN a \o b ELSE <<>>]

check_significant_arbitrage(g, kucoin_buy_cost, pancake_buy_cost, up) ==
  IF kucoin_buy_cost = 0 \/ pancake_buy_cost = 0
    THEN [handed |-> <<>>, sent |-> <<>>]
  ELSE
    LET a == IF PercentageExceeds(g.kucoin_to_pancakeswap, kucoin_buy_cost)
               THEN << AlertKucoinToPancake(g.kucoin_to_pancakeswap,
                                            kucoin_buy_cost, pancake_buy_cost) >>
               ELSE <<>>
        b == IF PercentageExceeds(g.pancakeswap_to_kucoin, pancake_buy_cost)
               THEN << AlertPancakeToKucoin(g.pancakeswap_to_kucoin,
                                            kucoin_buy_cost, pancake_buy_cost) >>
               ELSE <<>>
    IN IF a \o b # <<>>
         THEN [handed |-> << Msg("opportunity", a \o b) >>,
               sent |-> send_message(Msg("opportunity", a \o b), up)]
         ELSE [handed |-> <<>>, sent |-> <<>>]

\* The dict returned by _calculate_arbitrage_gains, lines 423-446.  The
\* steps are printed from kucoin_fee and pancakeswap_fee as they stand after
\* line 412: the fee on KuCoin's sell revenue and on PancakeSwap's buy cost.
GainsDict(g, k, x) ==
  [kucoin_to_pancakeswap |->
     [profit |-> g.kucoin_to_pancakeswap,
      profit_percentage |-> Percentage(g.kucoin_to_pancakeswap, k.buy_cost),
      steps |-> << Line("Achat sur KuCoin", Format2(10000 * k.buy_cost)),
                   Line("Frais KuCoin", Format2(KUCOIN_FEE_E4 * k.sell_revenue)),
                   Line("Vente sur PancakeSwap", Format2(10000 * x.sell_revenue)),
                   Line("Frais PancakeSwap", Format2(PANCAKESWAP_FEE_E4 * x.buy_cost)),
                   Line("Profit final", Format2(g.kucoin_to_pancakeswap)) >>],
   pancakeswap_to_kucoin |->
     [profit |-> g.pancakeswap_to_kucoin,
      profit_percentage |-> Percentage(g.pancakeswap_to_kucoin, x.buy_cost),
      steps |-> << Line("Achat sur PancakeSwap", Format2(10000 * x.buy_cost)),
                   Line("Frais PancakeSwap", Format2(PANCAKESWAP_FEE_E4 * x.buy_cost)),
                   Line("Vente sur kucoin", Format2(10000 * k.sell_revenue)),
                   Line("Frais KuCoin", Format2(KUCOIN_FEE_E4 * k.sell_revenue)),
                   Line("Profit final", Format2(g.pancakeswap_to_kucoin)) >>]]

\* TelegramNotifier._calculate_arbitrage_gains(kucoin, pancakeswap): k2, p2
\* are the outcomes of the two get_price_info calls it makes.  It raises when
\* a fetch raises and when a percentage of the returned dict divides by zero.
calculate_arbitrage_gains_zero_cost_result(k2, p2, up) ==
  IF ~k2.ok \/ ~p2.ok
    THEN [raised |-> TRUE, result |-> None, handed |-> <<>>, sent |-> <<>>]
  ELSE LET g == ArbitrageProfits(k2.v, p2.v)
           c == check_significant_arbitrage(g, k2.v.buy_cost, p2.v.buy_cost, up)
       IN [raised |-> FALSE, result |-> Some(GainsDict(g, k2.v, p2.v)),
           handed |-> c.handed, sent |-> c.sent]

calculate_arbitrage_gains_stale_quote(k2, p2, up) ==
  IF ~k2.ok
    THEN [raised |-> TRUE, result |-> None, handed |-> <<>>, sent |-> <<>>]
  ELSE LET x == IF p2.ok THEN p2.v
                ELSE CHOOSE q \in PQuotes : q.sell_revenue = 2013
           g == ArbitrageProfits(k2.v, x)
           c == check_significant_arbitrage(g, k2.v.buy_cost, x.buy_cost, up)
       IN IF k2.v.buy_cost = 0 \/ x.buy_cost = 0
            THEN [raised |-> TRUE, result |-> None,
                  handed |-> c.handed, sent |-> c.sent]
            ELSE [raised |-> FALSE, result |-> Some(GainsDict(g, k2.v, x)),
                  handed |-> c.handed, sent |-> c.sent]

calculate_arbitrage_gains(k2, p2, up) ==
  IF ~k2.ok \/ ~p2.ok
    THEN [raised |-> TRUE, result |-> None, handed |-> <<>>, sent |-> <<>>]
  ELSE LET g == ArbitrageProfits(k2.v, p2.v)
           c == check_significant_arbitrage(g, k2.v.buy_cost, p2.v.buy_cost, up)
       IN IF k2.v.buy_cost = 0 \/ p2.v.buy_cost = 0
            THEN [raised |-> TRUE, result |-> None,
                  handed |-> c.handed, sent |-> c.sent]
            ELSE [raised |-> FALSE, result |-> Some(GainsDict(g, k2.v, p2.v)),
                  handed |-> c.handed, sent |-> c.sent]

(***************************************************************************)
(* The polling loop of main.py (SpecMain).                                 *)
(***************************************************************************)
\* The record of an operation of the loop or of the chat.
OpRecord(n, op, fetched, E, k, x, error, handed, reply, quote_failed) ==
  [n |-> n, op |-> op, fetched |-> fetched, quote_failed |-> quote_failed,
   evaluated |-> E.result # None, result |-> E.result,
   alert |-> E.handed # <<>>, k |-> k, x |-> x,
   error |-> error, handed |-> handed, reply |-> reply]

NotEvaluated ==
  [raised |-> TRUE, result |-> None, handed |-> <<>>, sent |-> <<>>]

\* What an iteration that failed before the evaluation, and one that
\* reached it, add to `sent` and record (lines 129-153).
CycleError(fetched, quote_failed, up) ==
  [sent |-> send_message(Msg("error", <<>>), up), fetched |-> fetched,
   E |-> NotEvaluated, k |-> NoQuote, x |-> NoQuote, error |-> TRUE,
   handed |-> << Msg("error", <<>>) >>, quote_failed |-> quote_failed]

CycleEvaluated(E, k2, p2, up) ==
  IF E.raised
    THEN [sent |-> E.sent \o send_message(Msg("error", <<>>), up),
          fetched |-> TRUE, E |-> E, k |-> k2.v, x |-> p2.v,
          error |-> TRUE, handed |-> E.handed \o << Msg("error", <<>>) >>,
          quote_failed |-> ~k2.ok \/ ~p2.ok]
    ELSE [sent |-> E.sent, fetched |-> TRUE, E |-> E,
          k |-> k2.v, x |-> p2.v, error |-> FALSE,
          handed |-> E.handed,
          quote_failed |-> ~k2.ok \/ ~p2.ok]

\* One iteration of `while True` in main (lines 116-153), up to and
\* including its sleep.  k1, kb, p1, pb: the quotes and balances fetched for
\* the log; k2, p2: the quotes _calculate_arbitrage_gains fetches itself.
\* The result is what the iteration adds to `sent` and what it did.  No
\* TradingStrategy is constructed or called anywhere in main.
MainCycleResult(k1, kb, p1, pb, k2, p2, up) ==
  IF ~k1.ok THEN CycleError(FALSE, TRUE, up)
  ELSE IF ~kb.ok THEN CycleError(FALSE, FALSE, up)
  ELSE IF ~p1.ok THEN CycleError(FALSE, TRUE, up)
  ELSE IF ~pb.ok THEN CycleError(TRUE, FALSE, up)
  ELSE CycleEvaluated(calculate_arbitrage_gains(k2, p2, up), k2, p2, up)

ApplyMainCycle(k1, kb, p1, pb, k2, p2, up) ==
  LET R == MainCycleResult(k1, kb, p1, pb, k2, p2, up)
  IN /\ sent' = sent \o R.sent
     /\ cycle' = OpRecord(cycle.n + 1, "main_cycle", R.fetched, R.E, R.k, R.x,
                          R.error, R.handed, <<>>, R.quote_failed)
     /\ now' = now + 1
     /\ UNCHANGED <<price_history, is_monitoring, highest_price, orders,
                    coroutines, observed, armed_at, ticks, last, venue, ext>>

\* An outcome the iteration does not consume is fixed, so that each
\* behaviour of the iteration is drawn once; the quotes fetched for the log
\* are only printed.
AnyKQuote == Ok(CHOOSE k \in KQuotes : TRUE)
AnyPQuote == Ok(CHOOSE x \in PQuotes : TRUE)

main_cycle ==
  /\ cycle.n < MaxCycles
  /\ \E up \in BOOLEAN :
       \/ \E f \in 1..4 :
            ApplyMainCycle(IF f = 1 THEN RaiseQuote ELSE AnyKQuote,
                           IF f = 2 THEN Raise ELSE Ok(0),
                           IF f = 3 THEN RaiseQuote ELSE AnyPQuote,
                           IF f = 4 THEN Raise ELSE Ok(0),
                           RaiseQuote, RaiseQuote, up)
       \/ \E k2 \in KQuoteOutcomes :
            IF ~k2.ok
              THEN ApplyMainCycle(AnyKQuote, Ok(0), AnyPQuote, Ok(0),
                                  k2, RaiseQuote, up)
              ELSE \E p2 \in PQuoteOutcomes :
                     ApplyMainCycle(AnyKQuote, Ok(0), AnyPQuote, Ok(0),
                                    k2, p2, up)

NoOp ==
  [n |-> 0, op |-> "init", fetched |-> FALSE, quote_failed |-> FALSE,
   evaluated |-> FALSE,
   result |-> None, alert |-> FALSE, k |-> NoQuote, x |-> NoQuote,
   error |-> FALSE, handed |-> <<>>, reply |-> <<>>]

\* main, lines 95-114: the adapters and the notifier are built, the bot is
\* initialised and the start-up message is sent.
InitMain ==
  /\ price_history = <<>>
  /\ is_monitoring = FALSE
  /\ highest_price = None
  /\ now = 0
  /\ orders = <<>>
  /\ \E up \in BOOLEAN : sent = send_message(Msg("startup", <<>>), up)
  /\ coroutines = <<>>
  /\ observed = <<>>
  /\ armed_at = None
  /\ ticks = 0
  /\ last = [op |-> "init", was_monitoring |-> FALSE, peak_before |-> None,
             price |-> None, calls |-> <<>>, exc |-> FALSE, armed |-> FALSE,
             order |-> None, place |-> "not_called", balance |-> None]
  /\ cycle = NoOp
  /\ venue = <<>>
  /\ ExtIdle

NextMain == main_cycle
SpecMain == InitMain /\ [][NextMain]_vars

(***************************************************************************)
(* The chat buttons that run the evaluation (SpecChat).                    *)
(***************************************************************************)
MaxChatOps == 2

\* _handle_callback, query.data == "arbitrage" (lines 176-198): the gains
\* are computed and their steps are sent back with query.message.reply_text;
\* any exception is logged by the handler.
CallbackArbitrageResult(answered, k2, p2, up) ==
  IF ~answered
    THEN [sent |-> <<>>, E |-> NotEvaluated, k |-> NoQuote, x |-> NoQuote,
          error |-> TRUE, handed |-> <<>>, reply |-> <<>>,
          quote_failed |-> FALSE]
  ELSE
    LET E == calculate_arbitrage_gains(k2, p2, up)
    IN IF E.raised
         THEN [sent |-> E.sent, E |-> E, k |-> k2.v, x |-> p2.v,
               error |-> TRUE, handed |-> E.handed, reply |-> <<>>,
               quote_failed |-> ~k2.ok \/ ~p2.ok]
         ELSE LET r == Val(E.result)
              IN [sent |-> E.sent, E |-> E, k |-> k2.v, x |-> p2.v,
                  error |-> FALSE, handed |-> E.handed,
                  reply |-> << Msg("arbitrage",
                     << [direction |-> "kucoin_to_pancakeswap",
                         lines |-> r.kucoin_to_pancakeswap.steps],
                        [direction |-> "pancakeswap_to_kucoin",
                         lines |-> r.pancakeswap_to_kucoin.steps] >>) >>,
                  quote_failed |-> ~k2.ok \/ ~p2.ok]

\* send_full_report (lines 549-584): quotes and balances are fetched, the
\* gains are computed, the report is sent; on any exception an error message
\* is sent instead.  fetch_ok: the four fetches of lines 555-559 succeeded.
SendFullReportResult(fetch_ok, k2, p2, up) ==
  LET errmsg == Msg("report_error", <<>>)
      report == Msg("report", <<>>)
  IN IF ~fetch_ok
       THEN [sent |-> send_message(errmsg, up), E |-> NotEvaluated,
             k |-> NoQuote, x |-> NoQuote, error |-> TRUE,
             handed |-> <<errmsg>>, reply |-> <<>>,
             quote_failed |-> ~k2.ok \/ ~p2.ok]
     ELSE LET E == calculate_arbitrage_gains(k2, p2, up)
          IN IF E.raised
               THEN [sent |-> E.sent \o send_message(errmsg, up), E |-> E,
                     k |-> k2.v, x |-> p2.v, error |-> TRUE,
                     handed |-> E.handed \o <<errmsg>>, reply |-> <<>>,
                     quote_failed |-> ~k2.ok \/ ~p2.ok]
               ELSE [sent |-> E.sent \o send_message(report, up), E |-> E,
                     k |-> k2.v, x |-> p2.v, error |-> FALSE,
                     handed |-> E.handed \o <<report>>, reply |-> <<>>,
                     quote_failed |-> ~k2.ok \/ ~p2.ok]

ApplyChatOp(op, fetched, R) ==
  /\ sent' = sent \o R.sent
  /\ cycle' = OpRecord(cycle.n + 1, op, fetched, R.E, R.k, R.x, R.error,
                       R.handed, R.reply, R.quote_failed)
  /\ now' = now + 1
  /\ UNCHANGED <<price_history, is_monitoring, highest_price, orders,
                 coroutines, observed, armed_at, ticks, last, venue, ext>>

handle_callback_arbitrage ==
  /\ cycle.n < MaxChatOps
  /\ \E up \in BOOLEAN :
       \/ ApplyChatOp("arbitrage", FALSE,
            CallbackArbitrageResult(FALSE, RaiseQuote, RaiseQuote, up))
       \/ \E k2 \in KQuoteOutcomes :
            IF ~k2.ok
              THEN ApplyChatOp("arbitrage", FALSE,
                     CallbackArbitrageResult(TRUE, k2, RaiseQuote, up))
              ELSE \E p2 \in PQuoteOutcomes :
                     ApplyChatOp("arbitrage", FALSE,
                       CallbackArbitrageResult(TRUE, k2, p2, up))

handle_callback_report ==
  /\ cycle.n < MaxChatOps
  /\ \E up \in BOOLEAN :
       \/ ApplyChatOp("report", FALSE,
            SendFullReportResult(FALSE, RaiseQuote, RaiseQuote, up))
       \/ \E k2 \in KQuoteOutcomes :
            IF ~k2.ok
              THEN ApplyChatOp("report", TRUE,
                     SendFullReportResult(TRUE, k2, RaiseQuote, up))
              ELSE \E p2 \in PQuoteOutcomes :
                     ApplyChatOp("report", TRUE,
                       SendFullReportResult(TRUE, k2, p2, up))

NextChat == handle_callback_arbitrage \/ handle_callback_report
SpecChat == InitMain /\ [][NextChat]_vars

(***************************************************************************)
(* The two price adapters as functions of their source (SpecQuote).        *)
(*                                                                         *)
(* A book is [asks, bids], each a sequence of levels [price, quantity];    *)
(* prices are integers in 0.01 USDT and quantities integers in POLS.  The  *)
(* router's answer is the USDT amount, in 0.01 USDT, for the whole         *)
(* quantity.  Averages are kept as exact fractions num/den.                *)
(***************************************************************************)
MaxLevels == 2
AskPrices == {100, 102}
BidPrices == {98, 99, 101}
Quantities == {1, 2}
TradeSizes == {1, 2, 3}
AmountsOut == {0, 150, 300}

SeqsUpTo(S, n) == UNION {[1..m -> S] : m \in 0..n}
Books ==
  [asks : SeqsUpTo([price : AskPrices, quantity : Quantities], MaxLevels),
   bids : SeqsUpTo([price : BidPrices, quantity : Quantities], MaxLevels)]

Frac(n, d) == [num |-> n, den |-> d]
FracLeq(a, b) == a.num * b.den <= b.num * a.den
FracEq(a, b) == a.num * b.den = b.num * a.den

NoPriceInfo ==
  [current_price |-> Frac(0, 1), buy_price |-> Frac(0, 1),
   sell_price |-> Frac(0, 1), buy_cost |-> Frac(0, 1),
   sell_revenue |-> Frac(0, 1)]
RaisePriceInfo == [ok |-> FALSE, v |-> NoPriceInfo]

\* The loop over one side of the book, kucoin_exchange.py lines 48-60 and
\* 69-81: the cost accumulated and the quantity left to fill.
RECURSIVE WalkWholeLevels(_, _, _)
WalkWholeLevels(levels, total, remaining_quantity) ==
  IF levels = <<>> \/ remaining_quantity <= 0
    THEN [total |-> total, remaining_quantity |-> remaining_quantity]
  ELSE LET price == Head(levels).price
           quantity == Head(levels).quantity
       IN IF quantity <= remaining_quantity
            THEN WalkWholeLevels(Tail(levels), total + price * quantity,
                                 remaining_quantity - quantity)
            ELSE WalkWholeLevels(Tail(levels), total + price * quantity, 0)

RECURSIVE Walk(_, _, _)
Walk(levels, total, remaining_quantity) ==
  IF levels = <<>> \/ remaining_quantity <= 0
    THEN [total |-> total, remaining_quantity |-> remaining_quantity]
  ELSE LET price == Head(levels).price
           quantity == Head(levels).quantity
       IN IF quantity <= remaining_quantity
            THEN Walk(Tail(levels), total + price * quantity,
                      remaining_quantity - quantity)
            ELSE Walk(Tail(levels), total + price * remaining_quantity, 0)

\* KucoinExchange.get_price_info on a fetched book, lines 44-98.
kucoin_get_price_info_asks_checked_only(order_book, pols_quantity) ==
  LET buy == Walk(order_book.asks, 0, pols_quantity)
      sell == Walk(order_book.bids, 0, pols_quantity)
  IN IF buy.remaining_quantity > 0 THEN RaisePriceInfo
     ELSE [ok |-> TRUE,
           v |-> [current_price |-> Frac(order_book.asks[1].price, 1),
                  buy_price |-> Frac(buy.total, pols_quantity),
                  sell_price |-> Frac(sell.total, pols_quantity),
                  buy_cost |-> Frac(buy.total, 1),
                  sell_revenue |-> Frac(sell.total, 1)]]

kucoin_get_price_info(order_book, pols_quantity) ==
  LET buy == Walk(order_book.asks, 0, pols_quantity)
      sell == Walk(order_book.bids, 0, pols_quantity)
  IN IF buy.remaining_quantity > 0 THEN RaisePriceInfo
     ELSE IF sell.remaining_quantity > 0 THEN RaisePriceInfo
     ELSE [ok |-> TRUE,
           v |-> [current_price |-> Frac(order_book.asks[1].price, 1),
                  buy_price |-> Frac(buy.total, pols_quantity),
                  sell_price |-> Frac(sell.total, pols_quantity),
                  buy_cost |-> Frac(buy.total, 1),
                  sell_revenue |-> Frac(sell.total, 1)]]

\* PancakeSwapExchange.get_price_info on the router's answer, lines 127-145:
\* the spot price is amounts[1] per POLS, the buy and sell prices are the
\* spot price times 1.001 and 0.999.
pancakeswap_get_price_info_slippage_swapped(amount_out, pols_quantity) ==
  LET current_price == Frac(amount_out, pols_quantity)
      buy_price == Frac(999 * current_price.num, 1000 * current_price.den)
      sell_price == Frac(1001 * current_price.num, 1000 * current_price.den)
  IN [ok |-> TRUE,
      v |-> [current_price |-> current_price,
             buy_price |-> buy_price,
             sell_price |-> sell_price,
             buy_cost |-> Frac(buy_price.num * pols_quantity, buy_price.den),
             sell_revenue |-> Frac(sell_price.num * pols_quantity,
                                   sell_price.den)]]

pancakeswap_get_price_info_spot_after_slippage(amount_out, pols_quantity) ==
  LET quoted == Frac(amount_out, pols_quantity)
      current_price == Frac(999 * quoted.num, 1000 * quoted.den)
      buy_price == Frac(1001 * current_price.num, 1000 * current_price.den)
      sell_price == Frac(999 * current_price.num, 1000 * current_price.den)
  IN [ok |-> TRUE,
      v |-> [current_price |-> current_price,
             buy_price |-> buy_price,
             sell_price |-> sell_price,
             buy_cost |-> Frac(buy_price.num * pols_quantity, buy_price.den),
             sell_revenue |-> Frac(sell_price.num * pols_quantity,
                                   sell_price.den)]]

pancakeswap_get_price_info(amount_out, pols_quantity) ==
  LET current_price == Frac(amount_out, pols_quantity)
      buy_price == Frac(1001 * current_price.num, 1000 * current_price.den)
      sell_price == Frac(999 * current_price.num, 1000 * current_price.den)
  IN [ok |-> TRUE,
      v |-> [current_price |-> current_price,
             buy_price |-> buy_price,
             sell_price |-> sell_price,
             buy_cost |-> Frac(buy_price.num * pols_quantity, buy_price.den),
             sell_revenue |-> Frac(sell_price.num * pols_quantity,
                                   sell_price.den)]]

\* After construction (main, lines 95-96): each adapter holds the configured
\* quantity and the exchange holds a book; nothing was quoted yet.
InitQuote ==
  /\ price_history = <<>>
  /\ is_monitoring = FALSE
  /\ highest_price = None
  /\ now = 0
  /\ orders = <<>>
  /\ sent = <<>>
  /\ coroutines = <<>>
  /\ observed = <<>>
  /\ armed_at = None
  /\ ticks = 0
  /\ last = [op |-> "init", was_monitoring |-> FALSE, peak_before |-> None,
             price |-> None, calls |-> <<>>, exc |-> FALSE, armed |-> FALSE,
             order |-> None, place |-> "not_called", balance |-> None]
  /\ cycle = NoOp
  /\ ExtIdle
  /\ \E order_book \in Books : \E pols_quantity \in TradeSizes :
       venue = [order_book |-> order_book, pols_quantity |-> pols_quantity,
                op |-> "init", amount_out |-> 0, quote |-> RaisePriceInfo]

\* kucoin.get_price_info() on the book the exchange holds.
kucoin_quote ==
  /\ venue' = [venue EXCEPT !.op = "kucoin", !.amount_out = 0,
                 !.quote = kucoin_get_price_info(venue.order_book,
                                                 venue.pols_quantity)]
  /\ UNCHANGED <<price_history, is_monitoring, highest_price, now, orders,
                 sent, coroutines, observed, armed_at, ticks, last, cycle, ext>>

\* pancakeswap.get_price_info() with the router answering amount_out.
pancakeswap_quote ==
  \E amount_out \in AmountsOut :
    /\ venue' = [venue EXCEPT !.op = "pancakeswap", !.amount_out = amount_out,
                   !.quote = pancakeswap_get_price_info(amount_out,
                                                        venue.pols_quantity)]
    /\ UNCHANGED <<price_history, is_monitoring, highest_price, now, orders,
                   sent, coroutines, observed, armed_at, ticks, last, cycle, ext>>

NextQuote == kucoin_quote \/ pancakeswap_quote
SpecQuote == InitQuote /\ [][NextQuote]_vars

(***************************************************************************)
(* The polling task of main step by step, with the chat commands and the   *)
(* market beside it (SpecCycle).                                           *)
(*                                                                         *)
(* main and the handlers of the bot are coroutines of one asyncio event    *)
(* loop: a handler runs only while main is suspended in an await that       *)
(* really waits, which are bot.send_message (lines 152, 491) and            *)
(* asyncio.sleep (lines 147, 153).  The venue calls are blocking calls;    *)
(* the market moves at any time.  A market gives each venue's prices in    *)
(* 0.001 USDT per POLS; a flat book deep enough for every quantity.        *)
(* The messages of the running cycle are kept in loop.handed; the quotes    *)
(* and balances fetched for the log are dropped once they were logged      *)
(* (lines 121, 126), nothing reads them afterwards.                        *)
(***************************************************************************)
KMarkets == {[spot |-> 1995, buy |-> 1995, sell |-> 1990],
             [spot |-> 1900, buy |-> 1900, sell |-> 1895]}
PMarkets == {[spot |-> 2015, buy |-> 2017, sell |-> 2013],
             [spot |-> 1910, buy |-> 1912, sell |-> 1908]}
QuantityArgs == {[text |-> "", isdigit |-> FALSE, value |-> 0],
                 [text |-> "abc", isdigit |-> FALSE, value |-> 0],
                 [text |-> "0", isdigit |-> TRUE, value |-> 0],
                 [text |-> "1000", isdigit |-> TRUE, value |-> 1000],
                 [text |-> "2000", isdigit |-> TRUE, value |-> 2000]}
\* text, whether text.replace('.', '').isdigit(), and float(text) in
\* hundredths (None when float raises ValueError)
ThresholdArgs == {[text |-> "", isdigit |-> FALSE, value |-> None],
                  [text |-> "abc", isdigit |-> FALSE, value |-> None],
                  [text |-> "1.2.3", isdigit |-> TRUE, value |-> None],
                  [text |-> "0", isdigit |-> TRUE, value |-> Some(0)],
                  [text |-> "0.5", isdigit |-> TRUE, value |-> Some(50)],
                  [text |-> "1", isdigit |-> TRUE, value |-> Some(100)]}
FreeBalances == {5}

\* get_price_info of a venue whose adapter holds pols_quantity.
MarketQuote(m, pols_quantity) ==
  [current_price |-> m.spot, pols_quantity |-> pols_quantity,
   buy_cost |-> (m.buy * pols_quantity) \div 1000,
   sell_revenue |-> (m.sell * pols_quantity) \div 1000]

\* get_balance of a venue (kucoin_exchange.py 103-131, pancakeswap_exchange.py
\* 150-180): the free balance, and its value at the spot price of a
\* get_price_info call made inside get_balance.
get_balance(pols_free, m) ==
  [pols_free |-> pols_free, pols_value_usdt |-> pols_free * m.spot]

\* The awaits of main's loop at which the event loop runs other tasks.
SuspendedAtEveryStep(pc) == pc # "exited"

Suspended(pc) == pc \in {"send_alert", "sleep", "report_error", "sleep_retry"}

\* main's except clause, lines 149-153: after the error was handed to
\* send_message, which contains its own failures (lines 523-525), the task
\* sleeps and loops.
AfterErrorReportNeedsSink(up) == IF up THEN "sleep_retry" ELSE "exited"

AfterErrorReport(up) == "sleep_retry"

NoCycleReads ==
  [started |-> InitialConfig, quantities |-> <<>>, threshold |-> None,
   kucoin_price |-> None, kucoin_balance |-> None,
   pancake_price |-> None, pancake_balance |-> None,
   k |-> None, x |-> None, alert |-> FALSE, handed |-> <<>>, failed |-> FALSE]

StartOfCycle == [NoCycleReads EXCEPT !.started = config]

Step(pc, reads) ==
  /\ loop' = [pc |-> pc, reads |-> reads]
  /\ UNCHANGED <<price_history, is_monitoring, highest_price, now, orders,
                 sent, coroutines, observed, armed_at, ticks, last, cycle,
                 venue, config, user_data, dialog, process, chain,
                 updates>>

Fails == Step("report_error", [loop.reads EXCEPT !.failed = TRUE])

\* line 119: kucoin.get_price_info()
cycle_kucoin_price ==
  /\ loop.pc = "kucoin_price"
  /\ \/ Fails
     \/ Step("kucoin_balance",
             [loop.reads EXCEPT
                !.quantities = @ \o <<config.kucoin>>,
                !.kucoin_price = Some(MarketQuote(venue.kucoin, config.kucoin))])

\* line 120: kucoin.get_balance()
cycle_kucoin_balance ==
  /\ loop.pc = "kucoin_balance"
  /\ \/ Fails
     \/ \E pols_free \in FreeBalances :
          Step("pancake_price",
               [loop.reads EXCEPT
                  !.kucoin_balance =
                     Some(get_balance(pols_free, venue.kucoin))])

\* line 124: pancakeswap.get_price_info()
cycle_pancake_price ==
  /\ loop.pc = "pancake_price"
  /\ \/ Fails
     \/ Step("pancake_balance",
             [loop.reads EXCEPT
                !.kucoin_price = None, !.kucoin_balance = None,
                !.quantities = @ \o <<config.pancakeswap>>,
                !.pancake_price =
                   Some(MarketQuote(venue.pancakeswap, config.pancakeswap))])

\* line 125: pancakeswap.get_balance()
cycle_pancake_balance ==
  /\ loop.pc = "pancake_balance"
  /\ \/ Fails
     \/ \E pols_free \in FreeBalances :
          Step("gains_kucoin",
               [loop.reads EXCEPT
                  !.pancake_balance =
                     Some(get_balance(pols_free, venue.pancakeswap))])

\* telegram_notifier.py line 390: kucoin.get_price_info()
cycle_gains_kucoin ==
  /\ loop.pc = "gains_kucoin"
  /\ \/ Fails
     \/ Step("gains_pancake",
             [loop.reads EXCEPT
                !.pancake_price = None, !.pancake_balance = None,
                !.quantities = @ \o <<config.kucoin>>,
                !.k = Some(MarketQuote(venue.kucoin, config.kucoin))])

\* telegram_notifier.py line 391: pancakeswap.get_price_info()
cycle_gains_pancake ==
  /\ loop.pc = "gains_pancake"
  /\ \/ Fails
     \/ Step("gate",
             [loop.reads EXCEPT
                !.quantities = @ \o <<config.pancakeswap>>,
                !.x = Some(MarketQuote(venue.pancakeswap, config.pancakeswap))])

\* telegram_notifier.py lines 399-413 and 457-465: the profits and the test
\* against self.arbitrage_threshold.
cycle_gate ==
  /\ loop.pc = "gate"
  /\ LET k == Val(loop.reads.k)
         x == Val(loop.reads.x)
         g == ArbitrageProfits(k, x)
         alert ==
           \/ ExceedsThreshold(g.kucoin_to_pancakeswap, k.buy_cost,
                               config.arbitrage_threshold)
           \/ ExceedsThreshold(g.pancakeswap_to_kucoin, x.buy_cost,
                               config.arbitrage_threshold)
     IN Step(IF alert THEN "send_alert" ELSE "sleep",
             [loop.reads EXCEPT
                !.threshold = Some(config.arbitrage_threshold),
                !.alert = alert])

\* telegram_notifier.py line 491: await self.send_message(message)
cycle_send_alert ==
  /\ loop.pc = "send_alert"
  /\ \E up \in BOOLEAN :
       Step("sleep",
            [loop.reads EXCEPT
               !.handed = @ \o <<[kind |-> "opportunity", delivered |-> up]>>])

\* main.py line 152: await telegram.send_message(error_msg)
cycle_report_error ==
  /\ loop.pc = "report_error"
  /\ \E up \in BOOLEAN :
       Step(AfterErrorReport(up),
            [loop.reads EXCEPT
               !.handed = @ \o <<[kind |-> "error", delivered |-> up]>>])

\* main.py lines 147 and 153: await asyncio.sleep(60), then the next
\* iteration of while True.
cycle_sleep ==
  /\ loop.pc \in {"sleep", "sleep_retry"}
  /\ loop' = [pc |-> "kucoin_price", reads |-> StartOfCycle]
  /\ UNCHANGED <<price_history, is_monitoring, highest_price, now, orders,
                 sent, coroutines, observed, armed_at, ticks, last, cycle,
                 venue, config, user_data, dialog, process, chain,
                 updates>>

PollingTask ==
  \/ cycle_kucoin_price \/ cycle_kucoin_balance
  \/ cycle_pancake_price \/ cycle_pancake_balance
  \/ cycle_gains_kucoin \/ cycle_gains_pancake
  \/ cycle_gate \/ cycle_send_alert \/ cycle_report_error \/ cycle_sleep

\* _handle_set_quantity (lines 109-138) with context.args = [arg.text]
SetQuantityResultAdaptersOnly(arg, c) ==
  IF arg.text = "" \/ ~arg.isdigit
    THEN [config |-> c, reply |-> "usage"]
  ELSE IF arg.value <= 0
    THEN [config |-> c, reply |-> "must_be_positive"]
  ELSE [config |-> [c EXCEPT !.kucoin = arg.value, !.pancakeswap = arg.value],
        reply |-> "quantity_updated"]

SetQuantityResult(arg, c) ==
  IF arg.text = "" \/ ~arg.isdigit
    THEN [config |-> c, reply |-> "usage"]
  ELSE IF arg.value <= 0
    THEN [config |-> c, reply |-> "must_be_positive"]
  ELSE [config |-> [c EXCEPT !.kucoin = arg.value, !.pancakeswap = arg.value,
                             !.notifier = arg.value],
        reply |-> "quantity_updated"]

\* _handle_set_threshold (lines 86-107) with context.args = [arg.text]
SetThresholdResultZeroAccepted(arg, c) ==
  IF arg.text = "" \/ ~arg.isdigit
    THEN [config |-> c, reply |-> "usage"]
  ELSE IF arg.value = None
    THEN [config |-> c, reply |-> "error"]
  ELSE IF Val(arg.value) < 0
    THEN [config |-> c, reply |-> "must_be_positive"]
  ELSE [config |-> [c EXCEPT !.arbitrage_threshold = Val(arg.value)],
        reply |-> "threshold_updated"]

SetThresholdResult(arg, c) ==
  IF arg.text = "" \/ ~arg.isdigit
    THEN [config |-> c, reply |-> "usage"]
  ELSE IF arg.value = None
    THEN [config |-> c, reply |-> "error"]
  ELSE IF Val(arg.value) <= 0
    THEN [config |-> c, reply |-> "must_be_positive"]
  ELSE [config |-> [c EXCEPT !.arbitrage_threshold = Val(arg.value)],
        reply |-> "threshold_updated"]

ApplyCommand(op, arg, R) ==
  /\ config' = R.config
  /\ dialog' = [dialog EXCEPT
                  !.reply = [kind |-> R.reply, amount |-> None],
                  !.last = [NoPress EXCEPT !.op = op, !.text = Some(arg.text)]]
  /\ UNCHANGED <<price_history, is_monitoring, highest_price, now, orders,
                 sent, coroutines, observed, armed_at, ticks, last, cycle,
                 venue, user_data, loop, process, chain,
                 updates>>

handle_set_quantity ==
  /\ Suspended(loop.pc)
  /\ \E arg \in QuantityArgs :
       ApplyCommand("set_quantity", arg, SetQuantityResult(arg, config))

handle_set_threshold ==
  /\ Suspended(loop.pc)
  /\ \E arg \in ThresholdArgs :
       ApplyCommand("set_threshold", arg, SetThresholdResult(arg, config))

\* The market of a venue moves.
market_moves ==
  /\ \E k \in KMarkets : \E x \in PMarkets :
       /\ venue' = [kucoin |-> k, pancakeswap |-> x]
       /\ venue' # venue
  /\ UNCHANGED <<price_history, is_monitoring, highest_price, now, orders,
                 sent, coroutines, observed, armed_at, ticks, last, cycle,
                 config, user_data, dialog, loop, process, chain,
                 updates>>

InitCycle ==
  /\ price_history = <<>>
  /\ is_monitoring = FALSE
  /\ highest_price = None
  /\ now = 0
  /\ orders = <<>>
  /\ sent = <<>>
  /\ coroutines = <<>>
  /\ observed = <<>>
  /\ armed_at = None
  /\ ticks = 0
  /\ last = [op |-> "init", was_monitoring |-> FALSE, peak_before |-> None,
             price |-> None, calls |-> <<>>, exc |-> FALSE, armed |-> FALSE,
             order |-> None, place |-> "not_called", balance |-> None]
  /\ cycle = NoOp
  /\ \E k \in KMarkets : \E x \in PMarkets :
       venue = [kucoin |-> k, pancakeswap |-> x]
  /\ config = InitialConfig
  /\ user_data = NoUserData
  /\ dialog = NoDialog
  /\ loop = [pc |-> "kucoin_price", reads |-> NoCycleReads]
  /\ process = <<>>
  /\ chain = <<>>
  /\ updates = <<>>

NextCycle ==
  PollingTask \/ handle_set_quantity \/ handle_set_threshold \/ market_moves
SpecCycle == InitCycle /\ [][NextCycle]_vars

\* asyncio runs a task that is ready: the polling task always takes its
\* next step.
SpecCycleLive == SpecCycle /\ WF_vars(PollingTask)

(***************************************************************************)
(* The full report of the chat beside the set_quantity command             *)
(* (SpecReport).                                                           *)
(*                                                                         *)
(* The Application is built with the builder's defaults (line 38) and the  *)
(* handlers are registered blocking (lines 41-46): it takes one update at  *)
(* a time from its queue and awaits the handler before it takes the next.  *)
(* An update that arrives while send_full_report is suspended in a send    *)
(* waits in `updates.queue`.  The polling task of main runs beside the     *)
(* handlers; it writes none of the sizes and is left out.                  *)
(***************************************************************************)
MaxUpdates == 3

NoArg == [text |-> "", isdigit |-> FALSE, value |-> 0]
ReportPress == [kind |-> "report", arg |-> NoArg]
SetQuantityCommand(arg) == [kind |-> "set_quantity", arg |-> arg]
ChatUpdates ==
  {ReportPress} \cup {SetQuantityCommand(arg) : arg \in QuantityArgs}

NotFetched == MarketQuote([spot |-> 0, buy |-> 0, sell |-> 0], 0)
NoReportReads ==
  [kucoin_price |-> NotFetched, pancake_price |-> NotFetched, alert |-> FALSE,
   arrived_while_suspended |-> FALSE, exchanges_info |-> <<>>]

\* The handler the Application awaits: "idle" when it awaits none.
HandlersRunConcurrently(handler) == TRUE

MayTakeUpdate(handler) == handler = "idle"

\* format_exchange_info (lines 527-545): the two price lines are headed by
\* self.pols_quantity, the figures come from price_info.
format_exchange_info(name, price_info, notifier_pols_quantity) ==
  [name |-> name, pols_quantity |-> notifier_pols_quantity,
   price_info |-> price_info]

\* lines 566-569: both venues are formatted with the notifier's size as it
\* is when the line runs.
ExchangesInfo(reads, c) ==
  <<format_exchange_info("KuCoin", reads.kucoin_price, c.notifier),
    format_exchange_info("PancakeSwap", reads.pancake_price, c.notifier)>>

ReportFrame ==
  UNCHANGED <<price_history, is_monitoring, highest_price, now, orders,
              coroutines, observed, armed_at, ticks, last, cycle, venue,
              user_data, loop, process, chain>>

\* The user presses a button or sends a command: the update joins the queue.
update_arrives ==
  /\ updates.received < MaxUpdates
  /\ \E u \in ChatUpdates :
       updates' =
         [updates EXCEPT
            !.queue = Append(@, u),
            !.received = @ + 1,
            !.reads.arrived_while_suspended =
               @ \/ (updates.handler = "send_alert" /\ u.kind = "set_quantity")]
  /\ UNCHANGED <<config, dialog, sent>>
  /\ ReportFrame

\* The Application takes a set_quantity command: _handle_set_quantity
\* (lines 109-138) assigns the three sizes and replies.
take_set_quantity ==
  /\ MayTakeUpdate(updates.handler)
  /\ updates.queue # <<>>
  /\ Head(updates.queue).kind = "set_quantity"
  /\ LET R == SetQuantityResult(Head(updates.queue).arg, config)
     IN /\ config' = R.config
        /\ dialog' = [dialog EXCEPT
                        !.reply = [kind |-> R.reply, amount |-> None]]
  /\ updates' = [updates EXCEPT !.queue = Tail(@)]
  /\ UNCHANGED sent
  /\ ReportFrame

\* The Application takes a press of "report": send_full_report reads the
\* prices (lines 555-559) and awaits _calculate_arbitrage_gains (line 562),
\* which fetches the prices again and, above the threshold, is suspended in
\* the send of the alert (line 491).  Without an alert nothing waits before
\* the report is formatted (lines 566-572).  A venue call that raises leads
\* to the except clause of line 581.
take_report ==
  /\ MayTakeUpdate(updates.handler)
  /\ updates.queue # <<>>
  /\ Head(updates.queue).kind = "report"
  /\ \E fetched \in BOOLEAN :
       LET k == MarketQuote(venue.kucoin, config.kucoin)
           x == MarketQuote(venue.pancakeswap, config.pancakeswap)
           g == ArbitrageProfits(k, x)
           alert ==
             \/ ExceedsThreshold(g.kucoin_to_pancakeswap, k.buy_cost,
                                 config.arbitrage_threshold)
             \/ ExceedsThreshold(g.pancakeswap_to_kucoin, x.buy_cost,
                                 config.arbitrage_threshold)
           reads == [NoReportReads EXCEPT
                       !.kucoin_price = k, !.pancake_price = x,
                       !.alert = alert]
       IN updates' =
            [updates EXCEPT
               !.queue = Tail(@),
               !.handler = IF ~fetched THEN "send_error"
                           ELSE IF alert THEN "send_alert"
                           ELSE "send_report",
               !.reads = IF ~fetched THEN NoReportReads
                         ELSE IF alert THEN reads
                         ELSE [reads EXCEPT
                                 !.exchanges_info = ExchangesInfo(reads, config)]]
  /\ UNCHANGED <<config, dialog, sent>>
  /\ ReportFrame

\* line 491 returns: the alert was delivered or its failure swallowed; the
\* report is formatted now (lines 566-572) and handed to send_message.
report_alert_sent ==
  /\ updates.handler = "send_alert"
  /\ \E up \in BOOLEAN :
       sent' = sent \o send_message(Msg("opportunity", <<>>), up)
  /\ updates' =
       [updates EXCEPT
          !.handler = "send_report",
          !.reads.exchanges_info = ExchangesInfo(updates.reads, config)]
  /\ UNCHANGED <<config, dialog>>
  /\ ReportFrame

\* line 578 or line 584 returns and the handler with it.
report_sent ==
  /\ updates.handler \in {"send_report", "send_error"}
  /\ \E up \in BOOLEAN :
       sent' = sent \o
         send_message(IF updates.handler = "send_report"
                        THEN Msg("report", updates.reads.exchanges_info)
                        ELSE Msg("error", <<>>), up)
  /\ updates' = [updates EXCEPT !.handler = "idle"]
  /\ UNCHANGED <<config, dialog>>
  /\ ReportFrame

\* The market of a venue moves while the chat is served.
report_market_moves ==
  /\ updates.received < MaxUpdates
  /\ \E k \in KMarkets : \E x \in PMarkets :
       /\ venue' = [kucoin |-> k, pancakeswap |-> x]
       /\ venue' # venue
  /\ UNCHANGED <<price_history, is_monitoring, highest_price, now, orders,
                 sent, coroutines, observed, armed_at, ticks, last, cycle,
                 ext>>

InitReport ==
  /\ price_history = <<>>
  /\ is_monitoring = FALSE
  /\ highest_price = None
  /\ now = 0
  /\ orders = <<>>
  /\ sent = send_message(Msg("startup", <<>>), TRUE)
  /\ coroutines = <<>>
  /\ observed = <<>>
  /\ armed_at = None
  /\ ticks = 0
  /\ last = [op |-> "init", was_monitoring |-> FALSE, peak_before |-> None,
             price |-> None, calls |-> <<>>, exc |-> FALSE, armed |-> FALSE,
             order |-> None, place |-> "not_called", balance |-> None]
  /\ cycle = NoOp
  /\ \E k \in KMarkets : \E x \in PMarkets :
       venue = [kucoin |-> k, pancakeswap |-> x]
  /\ config = InitialConfig
  /\ user_data = NoUserData
  /\ dialog = NoDialog
  /\ loop = <<>>
  /\ process = <<>>
  /\ chain = <<>>
  /\ updates = [queue |-> <<>>, handler |-> "idle", received |-> 0,
                reads |-> NoReportReads]

NextReport ==
  \/ update_arrives \/ take_set_quantity \/ take_report
  \/ report_alert_sent \/ report_sent \/ report_market_moves
SpecReport == InitReport /\ [][NextReport]_vars

\* A size printed in a report of the chat, beside the size its figures
\* were computed with.
SizesOfReport(body) ==
  {<<body[i].pols_quantity, body[i].price_info.pols_quantity>> :
     i \in DOMAIN body}

\* C36: the trade size printed in a full report for a venue's buy and sell
\* prices equals the trade size that was in effect when those prices were
\* computed, also when a set_quantity command arrives while the report is
\* suspended in the send of an alert.
C36_ReportPrintsTheSizeOfItsPrices ==
  /\ \A i \in DOMAIN sent :
       sent[i].kind = "report" =>
         \A p \in SizesOfReport(sent[i].body) : p[1] = p[2]
  /\ updates.handler = "send_report" =>
       \A p \in SizesOfReport(updates.reads.exchanges_info) : p[1] = p[2]

C36_Witness ==
  /\ updates.handler = "idle"
  /\ updates.reads.alert /\ updates.reads.arrived_while_suspended
  /\ \E i \in DOMAIN sent :
       /\ sent[i].kind = "report"
       /\ sent[i].body = updates.reads.exchanges_info
       /\ sent[i].body[1].pols_quantity # config.notifier
  /\ dialog.reply.kind = "quantity_updated"

(***************************************************************************)
(* The on-demand buy and sell dialogue of the chat (SpecTrade).            *)
(*                                                                         *)
(* A message text is a sequence of characters; the texts considered are an *)
(* optional sign followed by digits, "nan", and words that float() does    *)
(* not accept.  A float is [nan, v].  Balances are whole POLS and USDT,    *)
(* prices whole USDT per POLS, a cost is kept in 1/10000 USDT.             *)
(* dialog.offered holds the venue buttons still on screen, dialog.reply,   *)
(* dialog.orders and dialog.last what the last handler answered, which     *)
(* orders it dispatched and what it read.                                  *)
(***************************************************************************)
Texts == { <<"5">>, <<"7">>, <<"0">>, <<"-", "5">>, <<"a", "b", "c">>,
           <<"n", "a", "n">> }
PolsBalances == {4, 10}
UsdtBalances == {5, 100}
TradePrices == {2}
Venues == {"kucoin", "pancake"}
Sides == {"sell", "buy"}

Num(v) == [nan |-> FALSE, v |-> v]
NaN == [nan |-> TRUE, v |-> 0]
\* a < b and a <= b of two Python floats: false when either is nan
FloatLt(a, b) == ~a.nan /\ ~b.nan /\ a.v < b.v
FloatLeq(a, b) == ~a.nan /\ ~b.nan /\ a.v <= b.v

Digit(c) ==
  CASE c = "0" -> 0 [] c = "1" -> 1 [] c = "2" -> 2 [] c = "3" -> 3
    [] c = "4" -> 4 [] c = "5" -> 5 [] c = "6" -> 6 [] c = "7" -> 7
    [] c = "8" -> 8 [] c = "9" -> 9 [] OTHER -> -1

RECURSIVE DigitsValue(_)
DigitsValue(cs) ==
  IF cs = <<>> THEN 0
  ELSE 10 * DigitsValue(SubSeq(cs, 1, Len(cs) - 1)) + Digit(cs[Len(cs)])

\* float(message), line 598: Ok(value) or Raise for ValueError
ParseFloat(text) ==
  LET body == IF text # <<>> /\ text[1] \in {"-", "+"} THEN Tail(text)
              ELSE text
  IN IF body = <<"n", "a", "n">> THEN [ok |-> TRUE, v |-> NaN]
     ELSE IF body # <<>> /\ \A i \in 1..Len(body) : Digit(body[i]) >= 0
       THEN [ok |-> TRUE,
             v |-> Num(IF text[1] = "-" THEN 0 - DigitsValue(body)
                       ELSE DigitsValue(body))]
     ELSE [ok |-> FALSE, v |-> Num(0)]

Button(action, exchange, amount) ==
  [action |-> action, venue |-> exchange, amount |-> amount]

Reply(kind) == [kind |-> kind, amount |-> None]

Say(kind) ==
  dialog' = [dialog EXCEPT !.reply = Reply(kind), !.orders = <<>>,
                           !.last = [NoPress EXCEPT !.op = "action"]]

TradeFrame ==
  UNCHANGED <<price_history, is_monitoring, highest_price, now, orders, sent,
              coroutines, observed, armed_at, ticks, last, cycle, venue,
              config, loop, process, chain,
                 updates>>

\* _handle_callback, query.data "sell_pols" or "buy_pols" (lines 209-226):
\* the prompt is sent, then the action is stored.  replied: reply_text
\* succeeded; otherwise the handler logs the exception (line 386).
press_action ==
  \E side \in Sides : \E replied \in BOOLEAN :
    /\ IF replied
         THEN /\ Say("enter_amount")
              /\ user_data' = [user_data EXCEPT !.action = Some(side),
                                                !.awaiting_amount = Some(TRUE)]
         ELSE /\ dialog' = [dialog EXCEPT !.reply = Reply("none"),
                                          !.orders = <<>>,
                                          !.last = [NoPress EXCEPT !.op = "action"]]
              /\ UNCHANGED user_data
    /\ TradeFrame

\* handle_message (lines 590-674) for a text message; quotes_ok: both
\* get_price_info calls of lines 611-612 succeeded.
HandleMessageResult(text, quotes_ok, u, offered) ==
  IF u.awaiting_amount = None
    THEN [user_data |-> u, offered |-> offered, reply |-> "none"]
  ELSE LET amount == ParseFloat(text)
       IN IF ~amount.ok
            THEN [user_data |-> u, offered |-> offered,
                  reply |-> "enter_valid_number"]
          ELSE IF FloatLeq(amount.v, Num(0))
            THEN [user_data |-> u, offered |-> offered,
                  reply |-> "must_be_positive"]
          ELSE IF ~quotes_ok
            THEN [user_data |-> [u EXCEPT !.amount = Some(amount.v)],
                  offered |-> offered, reply |-> "error"]
          ELSE [user_data |-> [u EXCEPT !.amount = Some(amount.v)],
                offered |-> offered
                  \cup {Button(Val(u.action), v, amount.v) : v \in Venues},
                reply |-> "choose_venue"]

handle_message ==
  \E text \in Texts : \E quotes_ok \in BOOLEAN :
    LET R == HandleMessageResult(text, quotes_ok, user_data, dialog.offered)
    IN /\ user_data' = R.user_data
       /\ dialog' = [dialog EXCEPT
                       !.offered = R.offered,
                       !.reply = Reply(R.reply),
                       !.orders = <<>>,
                       !.last = [NoPress EXCEPT !.op = "message",
                                                !.text = Some(text)]]
       /\ TradeFrame

\* The funds an order needs and the check the handler makes on them
\* (lines 243, 274-276, 318, 345-347): pols_free < amount for a sale,
\* usdt_free < amount * buy_price * (1 + fee) for a purchase.
FeeE4(exchange) ==
  IF exchange = "kucoin" THEN KUCOIN_FEE_E4 ELSE PANCAKESWAP_FEE_E4

Required(side, exchange, amount, buy_price) ==
  IF amount.nan THEN NaN
  ELSE IF side = "sell" THEN Num(10000 * amount.v)
  ELSE Num(amount.v * buy_price * (10000 + FeeE4(exchange)))

InsufficientOnlyForSales(side, free, required) ==
  side = "sell" /\ FloatLt(Num(10000 * free), required)

Insufficient(side, free, required) == FloatLt(Num(10000 * free), required)

\* _handle_callback for a venue button (lines 227-382).  free: the balance
\* read (POLS for a sale, USDT for a purchase), fetch_ok: get_balance and
\* get_price_info succeeded, placed: what the order call returned
\* ("order", "none" for a falsy answer, "raise"), replied: the reply_text
\* calls of the handler succeed.  When they raise, the exception of the
\* reply in the inner except (lines 309, 377) leaves the handler through
\* the outer except (line 385), past the clean-up of lines 379-382.
PressVenueResult(button, free, buy_price, fetch_ok, placed, replied, u) ==
  LET press(req) == [op |-> "venue", text |-> None, button |-> Some(button),
                     free |-> Some(free), required |-> req]
      unread == [op |-> "venue", text |-> None, button |-> Some(button),
                 free |-> None, required |-> None]
  IN
  IF u.amount = None
    THEN [user_data |-> u, reply |-> "amount_missing", order |-> None,
          last |-> unread]
  ELSE
    LET amount == Val(u.amount)
        required == Required(button.action, button.venue, amount, buy_price)
        order == [venue |-> button.venue, side |-> button.action,
                  size |-> amount, button |-> button]
    IN IF ~fetch_ok
         THEN [user_data |-> IF replied THEN NoUserData ELSE u,
               reply |-> "operation_error", order |-> None, last |-> unread]
       ELSE IF Insufficient(button.action, free, required)
         THEN [user_data |-> u, reply |-> "insufficient_balance",
               order |-> None, last |-> press(Some(required))]
       ELSE [user_data |-> IF replied THEN NoUserData ELSE u,
             reply |-> CASE placed = "order" -> "order_done"
                         [] placed = "none" -> "order_failed"
                         [] OTHER -> "operation_error",
             order |-> Some(order), last |-> press(Some(required))]

ApplyPressVenue(button, free, buy_price, fetch_ok, placed, replied) ==
  LET R == PressVenueResult(button, free, buy_price, fetch_ok, placed,
                            replied, user_data)
  IN /\ user_data' = R.user_data
     /\ dialog' = [dialog EXCEPT
                     !.reply = Reply(R.reply),
                     !.orders = IF R.order = None THEN <<>>
                                ELSE <<Val(R.order)>>,
                     !.last = R.last]

\* An outcome the handler does not consume is fixed, so that each of its
\* behaviours is drawn once.
press_venue ==
  /\ \E button \in dialog.offered :
       LET frees == IF button.action = "sell" THEN PolsBalances
                    ELSE UsdtBalances
           any_free == CHOOSE free \in frees : TRUE
           any_price == CHOOSE buy_price \in TradePrices : TRUE
       IN IF user_data.amount = None
            THEN ApplyPressVenue(button, any_free, any_price, TRUE, "order",
                                 TRUE)
          ELSE \E replied \in BOOLEAN :
                 \/ ApplyPressVenue(button, any_free, any_price, FALSE,
                                    "raise", replied)
                 \/ \E free \in frees : \E buy_price \in TradePrices :
                    \E placed \in {"order", "none", "raise"} :
                      ApplyPressVenue(button, free, buy_price, TRUE, placed,
                                      replied)
  /\ TradeFrame

NextTrade == press_action \/ handle_message \/ press_venue
\* The chat is used once main has started the bot (lines 100-112), here
\* with the start-up message delivered.
InitTrade == InitMain /\ sent = send_message(Msg("startup", <<>>), TRUE)
SpecTrade == InitTrade /\ [][NextTrade]_vars

(***************************************************************************)
(* Properties of the on-demand dialogue.                                   *)
(***************************************************************************)
Dispatched == dialog.orders # <<>>
StrictlyPositive(amount) == FloatLt(Num(0), amount)

\* C25: a venue press whose required funds exceed the free balance the
\* handler read places no order, answers that the balance is insufficient
\* and leaves the configuration and the strategy's state as they were, on
\* either venue and for either side.
C25_InsufficientFundsPlaceNoOrder ==
  [][ ( /\ dialog'.last.op = "venue"
        /\ dialog'.last.required # None
        /\ FloatLt(Num(10000 * Val(dialog'.last.free)),
                   Val(dialog'.last.required)) )
      => /\ dialog'.orders = <<>>
         /\ dialog'.reply.kind = "insufficient_balance"
         /\ config' = config
         /\ UNCHANGED <<price_history, is_monitoring, highest_price, orders>>
    ]_vars

\* a purchase on the pool venue was refused for want of USDT
C25_Witness ==
  /\ dialog.last.op = "venue"
  /\ Val(dialog.last.button).venue = "pancake"
  /\ Val(dialog.last.button).action = "buy"
  /\ dialog.last.required # None
  /\ FloatLt(Num(10000 * Val(dialog.last.free)), Val(dialog.last.required))
  /\ dialog.reply.kind = "insufficient_balance"
  /\ dialog.orders = <<>>

\* C26: an order is dispatched only by a venue press that finds a selected
\* action and a strictly positive numeric amount pending; a venue press that
\* finds no pending amount dispatches nothing and answers with an error; a
\* message whose text is not a number or is not strictly positive is
\* rejected: no venue button is offered and no amount is kept.
C26_DispatchFollowsActionAmountVenue ==
  [][ /\ Dispatched'
        => /\ dialog'.last.op = "venue"
           /\ user_data.action # None
           /\ user_data.amount # None
           /\ StrictlyPositive(Val(user_data.amount))
      /\ (dialog'.last.op = "venue" /\ user_data.amount = None)
        => ~Dispatched' /\ dialog'.reply.kind = "amount_missing"
      /\ ( /\ dialog'.last.op = "message"
           /\ user_data.awaiting_amount # None
           /\ LET amount == ParseFloat(Val(dialog'.last.text))
              IN ~amount.ok \/ ~StrictlyPositive(amount.v) )
        => /\ dialog'.offered = dialog.offered
           /\ user_data' = user_data
           /\ dialog'.reply.kind \in {"enter_valid_number", "must_be_positive"}
    ]_vars

\* C31: a venue press that dispatches an order, whatever the order call
\* answers, leaves no pending amount, action or awaiting flag; a venue press
\* that follows it with no message in between dispatches nothing.
C31_DispatchClearsThePendingAmount ==
  [][ /\ (dialog'.last.op = "venue" /\ Dispatched')
        => user_data' = NoUserData
      /\ (dialog.last.op = "venue" /\ Dispatched /\ dialog'.last.op = "venue")
        => ~Dispatched'
    ]_vars

\* C30: the size of a dispatched order is the amount on the pressed button.
C30_SizeIsTheButtonAmount ==
  \A i \in DOMAIN dialog.orders :
    dialog.orders[i].size = dialog.orders[i].button.amount

(***************************************************************************)
(* Start-up of the process (SpecStart): main up to its polling loop.       *)
(*                                                                         *)
(* process.env gives, for each variable of .env, whether it is unset,      *)
(* empty or set; process.pc is the position of main; process.telegram      *)
(* tells whether the local name `telegram` is bound; quotes, evaluations   *)
(* and orders count what the process has done.                             *)
(***************************************************************************)
MaxStartCycles == 2
KucoinVariables ==
  {"KUCOIN_API_KEY", "KUCOIN_API_SECRET", "KUCOIN_API_PASSPHRASE"}
PancakeSwapVariables == {"BSC_WALLET_ADDRESS"}
TelegramVariables == {"TELEGRAM_BOT_TOKEN", "TELEGRAM_CHAT_ID"}
TradeVariables == {"BSC_PRIVATE_KEY"}
EnvVariables ==
  KucoinVariables \cup PancakeSwapVariables \cup TelegramVariables
    \cup TradeVariables
EnvValues == {"unset", "empty", "set"}

\* os.getenv gives None or the string; both None and "" are falsy
Truthy(env, name) == env[name] = "set"

\* all([...]) of kucoin line 28 and telegram line 27, and the single test
\* of pancakeswap line 103
AnySet(env, names) == \E name \in names : Truthy(env, name)

AllSet(env, names) == \A name \in names : Truthy(env, name)

StartProcess(env) ==
  [pc |-> "kucoin", env |-> env, telegram |-> FALSE, quotes |-> 0,
   evaluations |-> 0, orders |-> 0]

StartFrame ==
  UNCHANGED <<price_history, is_monitoring, highest_price, now, orders, sent,
              coroutines, observed, armed_at, ticks, last, cycle, venue,
              config, user_data, dialog, loop, chain,
                 updates>>

At(pc) == process.pc = pc
Goto(pc) == process' = [process EXCEPT !.pc = pc]

\* KucoinExchange(pols_quantity=POLS_QUANTITY), main line 95
construct_kucoin ==
  /\ At("kucoin")
  /\ Goto(IF AllSet(process.env, KucoinVariables) THEN "pancakeswap"
          ELSE "fatal")
  /\ StartFrame

\* PancakeSwapExchange(...), main line 96; connected: web3.is_connected()
construct_pancakeswap ==
  /\ At("pancakeswap")
  /\ \E connected \in BOOLEAN :
       Goto(IF AllSet(process.env, PancakeSwapVariables) /\ connected
              THEN "telegram" ELSE "fatal")
  /\ StartFrame

\* TelegramNotifier(...), main line 97: `telegram` is bound when the
\* constructor returns
construct_telegram ==
  /\ At("telegram")
  /\ IF AllSet(process.env, TelegramVariables)
       THEN process' = [process EXCEPT !.pc = "initialize", !.telegram = TRUE]
       ELSE Goto("fatal")
  /\ StartFrame

\* telegram.initialize(), the start-up message, bot_data and the start of
\* the bot's polling, main lines 100-114; ok: none of the awaited calls
\* raised
start_bot ==
  /\ At("initialize")
  /\ \E ok \in BOOLEAN : Goto(IF ok THEN "loop" ELSE "fatal")
  /\ StartFrame

\* except Exception of main, lines 162-169: telegram.send_message(...) on a
\* name that is unbound when a constructor raised
fatal_error ==
  /\ At("fatal")
  /\ Goto(IF process.telegram THEN "exited" ELSE "crashed")
  /\ StartFrame

\* one iteration of while True, lines 116-153: quotes are fetched and the
\* evaluation is called
polling_iteration ==
  /\ At("loop")
  /\ process.quotes < MaxStartCycles
  /\ \E evaluated \in BOOLEAN :
       process' = [process EXCEPT
                     !.quotes = @ + 1,
                     !.evaluations = IF evaluated THEN @ + 1 ELSE @]
  /\ StartFrame

\* a venue button handled by the bot once its polling has started
on_demand_order ==
  /\ At("loop")
  /\ process.orders < MaxStartCycles
  /\ process' = [process EXCEPT !.orders = @ + 1]
  /\ StartFrame

\* main is entered with the variables of .env in any state
InitStart ==
  /\ price_history = <<>>
  /\ is_monitoring = FALSE
  /\ highest_price = None
  /\ now = 0
  /\ orders = <<>>
  /\ sent = <<>>
  /\ coroutines = <<>>
  /\ observed = <<>>
  /\ armed_at = None
  /\ ticks = 0
  /\ last = [op |-> "init", was_monitoring |-> FALSE, peak_before |-> None,
             price |-> None, calls |-> <<>>, exc |-> FALSE, armed |-> FALSE,
             order |-> None, place |-> "not_called", balance |-> None]
  /\ cycle = NoOp
  /\ venue = <<>>
  /\ config = InitialConfig
  /\ user_data = NoUserData
  /\ dialog = NoDialog
  /\ loop = <<>>
  /\ chain = <<>>
  /\ updates = <<>>
  /\ \E env \in [EnvVariables -> EnvValues] : process = StartProcess(env)

NextStart ==
  \/ construct_kucoin
  \/ construct_pancakeswap
  \/ construct_telegram
  \/ start_bot
  \/ fatal_error
  \/ polling_iteration
  \/ on_demand_order
SpecStart == InitStart /\ [][NextStart]_vars

RequiredAtStartup ==
  KucoinVariables \cup PancakeSwapVariables \cup TelegramVariables

InputAmounts == {10, 20}
ReceiptStatuses == {0, 1}

Tx(kind, status) == [kind |-> kind, status |-> status]

NoCall ==
  [side |-> "none", amount_in |-> 0, allowance |-> 0, txs |-> <<>>,
   raised |-> FALSE]

\* What approve asks for: exactly amount_in on the sell path (line 228),
\* cost * 1.1 on the buy path (line 323).
ApproveAmount(side, amount_in) ==
  IF side = "sell" THEN amount_in ELSE (amount_in * 11) \div 10

\* Whether the call goes on after the receipt of its approve transaction:
\* the sell path raises unless the status is 1 (lines 242-243), the buy
\* path does not look at the receipt (line 333).
ProceedsAfterApprove(side, status) == side = "buy" \/ status = 1

\* ready: the balance suffices and the private key is usable (lines
\* 196-207, 293-312); approve and swap: the status of each receipt, None
\* when sending or waiting raised.
PoolOrderResult(side, amount_in, allowance, ready, approve, swap) ==
  LET stopped(txs) == [txs |-> txs, raised |-> TRUE, allowance |-> allowance]
  IN IF ~ready THEN stopped(<<>>)
     ELSE
       LET needs == allowance < amount_in
           approved == needs /\ approve # None /\ Val(approve) = 1
           after == IF approved THEN ApproveAmount(side, amount_in)
                    ELSE allowance
           first == IF needs /\ approve # None
                      THEN << Tx("approve", Val(approve)) >> ELSE <<>>
       IN IF needs /\ approve = None THEN stopped(<<>>)
          ELSE IF needs /\ ~ProceedsAfterApprove(side, Val(approve))
            THEN stopped(first)
          ELSE IF swap = None
            THEN [txs |-> first, raised |-> TRUE, allowance |-> after]
          ELSE LET status == IF after < amount_in THEN 0 ELSE Val(swap)
               IN [txs |-> first \o << Tx("swap", status) >>,
                   raised |-> status # 1,
                   allowance |-> IF status = 1 THEN after - amount_in
                                 ELSE after]

SwapFrame ==
  UNCHANGED <<price_history, is_monitoring, highest_price, now, orders, sent,
              coroutines, observed, armed_at, ticks, last, cycle, venue,
              config, user_data, dialog, loop, process,
                 updates>>

ApplyPoolOrder(side, amount_in, ready, approve, swap) ==
  LET R == PoolOrderResult(side, amount_in, chain.allowance[side], ready,
                           approve, swap)
  IN chain' = [allowance |-> [chain.allowance EXCEPT ![side] = R.allowance],
               call |-> [side |-> side, amount_in |-> amount_in,
                         allowance |-> chain.allowance[side],
                         txs |-> R.txs, raised |-> R.raised]]

ReceiptOutcomes == {None} \cup {Some(st) : st \in ReceiptStatuses}

\* PancakeSwapExchange.create_market_sell_order, lines 182-287
create_market_sell_order ==
  /\ \E amount_in \in InputAmounts : \E ready \in BOOLEAN :
     \E approve \in ReceiptOutcomes : \E swap \in ReceiptOutcomes :
       ApplyPoolOrder("sell", amount_in, ready, approve, swap)
  /\ SwapFrame

\* PancakeSwapExchange.create_market_buy_order, lines 289-380
create_market_buy_order ==
  /\ \E amount_in \in InputAmounts : \E ready \in BOOLEAN :
     \E approve \in ReceiptOutcomes : \E swap \in ReceiptOutcomes :
       ApplyPoolOrder("buy", amount_in, ready, approve, swap)
  /\ SwapFrame

\* the allowance is revoked or granted outside the program
allowance_changes ==
  /\ \E side \in {"sell", "buy"} : \E a \in {0} \cup InputAmounts :
       /\ a # chain.allowance[side]
       /\ chain' = [chain EXCEPT !.allowance[side] = a]
  /\ SwapFrame

InitSwap ==
  /\ price_history = <<>>
  /\ is_monitoring = FALSE
  /\ highest_price = None
  /\ now = 0
  /\ orders = <<>>
  /\ sent = <<>>
  /\ coroutines = <<>>
  /\ observed = <<>>
  /\ armed_at = None
  /\ ticks = 0
  /\ last = [op |-> "init", was_monitoring |-> FALSE, peak_before |-> None,
             price |-> None, calls |-> <<>>, exc |-> FALSE, armed |-> FALSE,
             order |-> None, place |-> "not_called", balance |-> None]
  /\ cycle = NoOp
  /\ venue = <<>>
  /\ config = InitialConfig
  /\ user_data = NoUserData
  /\ dialog = NoDialog
  /\ loop = <<>>
  /\ process = <<>>
  /\ chain = [allowance |-> [sell |-> 0, buy |-> 0], call |-> NoCall]
  /\ updates = <<>>

NextSwap ==
  create_market_sell_order \/ create_market_buy_order \/ allowance_changes
SpecSwap == InitSwap /\ [][NextSwap]_vars

SwapSubmitted(call) == \E i \in DOMAIN call.txs : call.txs[i].kind = "swap"
ApproveConfirmed(call) ==
  \E i \in DOMAIN call.txs :
    call.txs[i].kind = "approve" /\ call.txs[i].status = 1
ApproveFailed(call) ==
  \E i \in DOMAIN call.txs :
    call.txs[i].kind = "approve" /\ call.txs[i].status # 1

\* C28: on either path a swap is submitted only when the allowance read
\* covers the input amount or an approve transaction of the call was
\* confirmed with status 1; a call whose approval failed submits no swap.
C28_SwapOnlyWithAllowance ==
  /\ SwapSubmitted(chain.call)
       => \/ chain.call.allowance >= chain.call.amount_in
          \/ ApproveConfirmed(chain.call)
  /\ ApproveFailed(chain.call) => ~SwapSubmitted(chain.call)

(***************************************************************************)
(* The USDT balance of the wallet as the pool adapter reads it             *)
(* (SpecWallet).  balanceOf returns the raw integer balance; get_balance   *)
(* and create_market_buy_order each convert it.  A figure is kept as the   *)
(* exact decimal num / 10^exp in lowest terms.  Prices are in 0.001 USDT.  *)
(***************************************************************************)
RawBalances == {0, 1, 5000000, 20000000, 50000000, 123456789}
BuyAmounts == {1, 10}
PoolPrices == {2000}

RECURSIVE Decimal(_, _)
Decimal(num, exp) ==
  IF num = 0 THEN [num |-> 0, exp |-> 0]
  ELSE IF exp > 0 /\ num % 10 = 0 THEN Decimal(num \div 10, exp - 1)
  ELSE [num |-> num, exp |-> exp]

\* web3.from_wei(value, unit): value / 10^6 for 'mwei', / 10^18 for 'ether'.
from_wei(value, unit) ==
  Decimal(value, IF unit = "mwei" THEN 6 ELSE 18)

\* get_balance line 165: float(balanceOf(...)) / 1e18
get_balance_usdt_free(raw) == Decimal(raw, 18)

\* create_market_buy_order lines 304-312: the balance is converted with
\* 'mwei', cost = amount * current_price * 1.0025, and the call raises
\* "Solde USDT insuffisant" when usdt_balance < cost.
BuyBalanceCheck(raw, amount, current_price) ==
  LET usdt_balance == from_wei(raw, "mwei")
      cost_e7 == amount * current_price * 10025
  IN [usdt_balance |-> usdt_balance, cost_e7 |-> cost_e7,
      raised |-> raw * 10 < cost_e7]

WalletFrame ==
  UNCHANGED <<price_history, is_monitoring, highest_price, now, orders, sent,
              coroutines, observed, armed_at, ticks, last, cycle, venue,
              config, user_data, dialog, loop, process, updates>>

\* pancakeswap.get_balance() on the wallet as it is.
wallet_get_balance ==
  /\ chain' = [chain EXCEPT
                 !.reported = Some([raw |-> chain.raw,
                                    usdt_free |-> get_balance_usdt_free(chain.raw)])]
  /\ WalletFrame

\* pancakeswap.create_market_buy_order(amount) up to its balance check.
wallet_buy_check ==
  /\ \E amount \in BuyAmounts : \E current_price \in PoolPrices :
       LET R == BuyBalanceCheck(chain.raw, amount, current_price)
       IN chain' = [chain EXCEPT
                      !.used = Some([raw |-> chain.raw,
                                     usdt_balance |-> R.usdt_balance,
                                     raised |-> R.raised])]
  /\ WalletFrame

\* USDT enters or leaves the wallet.
wallet_transfer ==
  /\ \E raw \in RawBalances :
       /\ raw # chain.raw
       /\ chain' = [chain EXCEPT !.raw = raw]
  /\ WalletFrame

InitWallet ==
  /\ price_history = <<>>
  /\ is_monitoring = FALSE
  /\ highest_price = None
  /\ now = 0
  /\ orders = <<>>
  /\ sent = <<>>
  /\ coroutines = <<>>
  /\ observed = <<>>
  /\ armed_at = None
  /\ ticks = 0
  /\ last = [op |-> "init", was_monitoring |-> FALSE, peak_before |-> None,
             price |-> None, calls |-> <<>>, exc |-> FALSE, armed |-> FALSE,
             order |-> None, place |-> "not_called", balance |-> None]
  /\ cycle = NoOp
  /\ venue = <<>>
  /\ config = InitialConfig
  /\ user_data = NoUserData
  /\ dialog = NoDialog
  /\ loop = <<>>
  /\ process = <<>>
  /\ \E raw \in RawBalances :
       chain = [raw |-> raw, reported |-> None, used |-> None]
  /\ updates = <<>>

NextWallet == wallet_get_balance \/ wallet_buy_check \/ wallet_transfer
SpecWallet == InitWallet /\ [][NextWallet]_vars

\* C37: for the same raw USDT balance of the wallet, the amount the buy
\* operation compares with the cost equals the usdt_free figure reported by
\* get_balance.
C37_BuyCheckUsesTheReportedBalance ==
  (/\ chain.reported # None /\ chain.used # None
   /\ Val(chain.reported).raw = Val(chain.used).raw)
    => Val(chain.used).usdt_balance = Val(chain.reported).usdt_free

(***************************************************************************)
(* Properties of the momentum exit strategy (checked under Spec).          *)
(***************************************************************************)
IsTick == ticks' = ticks + 1

\* C1: a tick in which an adapter call fails (price fetch, balance fetch or
\* order placement raising) leaves price_history, is_monitoring and
\* highest_price exactly as they were before the tick.
C1_FailedTickLeavesStateUnchanged ==
  [][(IsTick /\ last'.exc) => UNCHANGED StrategyState]_vars

\* C2: the strategy leaves Monitoring (is_monitoring false, highest_price
\* None) only in a tick in which a limit sell order was placed.
C2_LeavesMonitoringOnlyWithOrder ==
  [][(is_monitoring /\ ~is_monitoring')
       => (Len(orders') = Len(orders) + 1 /\ last'.place = "order")]_vars

\* C3: between ticks, highest_price is set if and only if is_monitoring.
C3_PeakSetIffMonitoring == (highest_price # None) <=> is_monitoring

C3_Witness ==
  /\ last.op = "check_and_update" /\ last.exc /\ last.was_monitoring
  /\ last.price # None
  /\ ~is_monitoring /\ highest_price = None

\* C4: while Monitoring, highest_price is at least every price observed
\* since (and including) the arming tick, and it does not decrease from one
\* tick to the next within a monitoring episode.
C4_PeakDominatesAndRatchets ==
  /\ [](is_monitoring =>
          \A i \in 1..Len(price_history) :
             price_history[i].timestamp >= Val(armed_at)
               => Val(highest_price) >= price_history[i].price)
  /\ [][(is_monitoring /\ is_monitoring')
          => Val(highest_price') >= Val(highest_price)]_vars

C4_Witness ==
  /\ is_monitoring /\ last.was_monitoring /\ last.price # None
  /\ \E i \in 1..Len(price_history) :
        /\ price_history[i].timestamp = Val(armed_at)
        /\ Val(last.peak_before) > price_history[i].price
  /\ Val(last.price) < Val(highest_price)

\* C5: a Monitoring tick that sees a drop of at least DROP_THRESHOLD while
\* the free balance is below ORDER_SIZE places no limit order and stays
\* Monitoring with highest_price unchanged; a following tick with the drop
\* persisting and a sufficient balance then calls the order placement.
C5_InsufficientBalanceKeepsMonitoring ==
  [][(/\ IsTick /\ is_monitoring /\ last'.price # None
      /\ LET p == Val(last'.price)
             hp == Max(Val(highest_price), p)
         IN (hp - p) * 100 >= DROP_THRESHOLD_PCT * hp)
     => /\ (last'.balance # None /\ Val(last'.balance) < ORDER_SIZE)
             => /\ orders' = orders
                /\ last'.place = "not_called"
                /\ \A i \in 1..Len(last'.calls) :
                      last'.calls[i] # "create_limit_order"
                /\ is_monitoring' /\ highest_price' = highest_price
        /\ (last'.balance # None /\ Val(last'.balance) >= ORDER_SIZE)
             => /\ last'.place # "not_called"
                /\ \E i \in 1..Len(last'.calls) :
                      last'.calls[i] = "create_limit_order"]_vars

C5_Witness ==
  /\ last.op = "check_and_update" /\ last.was_monitoring
  /\ last.balance # None /\ Val(last.balance) < ORDER_SIZE
  /\ last.place = "not_called" /\ last.order = None
  /\ is_monitoring /\ highest_price = last.peak_before

\* C6: a Monitoring tick with drop >= DROP_THRESHOLD from the ratcheted peak,
\* free balance >= ORDER_SIZE and a successful order call dispatches exactly
\* one limit sell order of size ORDER_SIZE at
\* current_price * (1 - LIMIT_ORDER_OFFSET) and returns to Idle with
\* highest_price cleared; with drop < DROP_THRESHOLD no order is dispatched
\* and the state stays Monitoring.
C6_DropPlacesOneOrder ==
  [][(IsTick /\ is_monitoring /\ last'.price # None)
     => LET p == Val(last'.price)
            hp == Max(Val(highest_price), p)
        IN IF (hp - p) * 100 >= DROP_THRESHOLD_PCT * hp
             THEN /\ Len(last'.calls) >= 2 /\ last'.calls[2] = "get_balance"
                  /\ (/\ last'.balance # None /\ Val(last'.balance) >= ORDER_SIZE
                      /\ last'.place = "order")
                     => /\ Len(orders') = Len(orders) + 1
                        /\ SubSeq(orders', 1, Len(orders)) = orders
                        /\ LET o == orders'[Len(orders')]
                           IN /\ o.symbol = "POLS-USDT" /\ o.side = "sell"
                              /\ o.size = ORDER_SIZE
                              /\ o.price.num * 100
                                   = p * (100 - LIMIT_ORDER_OFFSET_PCT)
                                       * o.price.den
                        /\ ~is_monitoring' /\ highest_price' = None
             ELSE /\ orders' = orders /\ last'.place = "not_called"
                  /\ Len(last'.calls) = 1
                  /\ is_monitoring' /\ highest_price' = Some(hp)]_vars

C6_Witness ==
  /\ last.op = "check_and_update" /\ last.was_monitoring
  /\ last.place = "order" /\ last.order # None
  /\ Len(orders) >= 1 /\ orders[Len(orders)] = Val(last.order)
  /\ Val(last.order).wire_price < Val(last.price)
  /\ ~is_monitoring /\ highest_price = None

\* C7: an Idle tick arms the strategy (is_monitoring, highest_price =
\* current price) if and only if, after the append, the history holds at
\* least MA_PERIODS entries and the current price exceeds the mean of the
\* last MA_PERIODS prices by strictly more than PRICE_INCREASE_THRESHOLD
\* relative to that mean; Monitoring is entered in no other way.
C7_ArmsIffAboveMovingAverage ==
  [][/\ (~is_monitoring /\ is_monitoring')
          <=> /\ IsTick /\ ~is_monitoring /\ last'.price # None
              /\ Len(price_history') >= MA_PERIODS
              /\ LET n == Len(price_history')
                     sum == SumPrices(price_history', n - MA_PERIODS + 1, n)
                     p == Val(last'.price)
                 IN (p * MA_PERIODS - sum) * 100
                      > PRICE_INCREASE_THRESHOLD_PCT * sum
     /\ (~is_monitoring /\ is_monitoring')
          => /\ highest_price' = last'.price
             /\ price_history'[Len(price_history')].price = Val(last'.price)]_vars

C7_Witness ==
  /\ last.op = "check_and_update" /\ ~last.was_monitoring /\ last.armed
  /\ is_monitoring /\ highest_price = last.price
  /\ Len(price_history) >= MA_PERIODS

\* C8: every Idle-to-Monitoring transition delivers exactly one alert to the
\* notification sink, every placed strategy order delivers exactly one order
\* notification, and no other tick delivers a strategy notification.
C8_OneNotificationPerArmAndOrder ==
  [][IsTick =>
       Len(sent') - Len(sent)
         = (IF ~is_monitoring /\ is_monitoring' THEN 1 ELSE 0)
           + (IF Len(orders') > Len(orders) THEN 1 ELSE 0)]_vars

(***************************************************************************)
(* Properties of the price history (checked under SpecHist).               *)
(***************************************************************************)
\* C34: the strategy attempts a limit order only in a tick that began in
\* Monitoring.  A tick that began Idle, the arming tick included, makes no
\* call but the price fetch (no drop check, no balance read, no order), and
\* an order is placed at a clock strictly later than the arming tick's.
C34_OrderOnlyInTickThatBeganMonitoring ==
  [][IsTick =>
       /\ ~is_monitoring =>
            /\ orders' = orders
            /\ last'.calls = <<"get_price_info">>
            /\ last'.place = "not_called"
            /\ last'.order = None
       /\ last'.place # "not_called" => is_monitoring
       /\ orders' # orders =>
            /\ is_monitoring
            /\ armed_at # None
            /\ Val(armed_at) < now
    ]_vars

C34_Witness ==
  /\ last.op = "check_and_update" /\ last.place = "order"
  /\ last.was_monitoring /\ ~last.armed
  /\ Len(orders) = 1 /\ ~is_monitoring

\* C35: a tick whose price fetch fails is a no-op: price_history,
\* is_monitoring and highest_price keep their values, the balance is not
\* read, no order is placed and no notification is built or sent.
C35_FailedPriceFetchIsNoOp ==
  [][(IsTick /\ last'.price = None) =>
       /\ UNCHANGED StrategyState
       /\ last'.calls = <<"get_price_info">>
       /\ last'.balance = None
       /\ last'.place = "not_called"
       /\ UNCHANGED <<orders, sent, coroutines, armed_at>>
    ]_vars

C35_Witness ==
  /\ last.op = "check_and_update" /\ last.price = None
  /\ last.was_monitoring /\ is_monitoring /\ highest_price # None
  /\ last.calls = <<"get_price_info">>

C10_EvaluatedCycleRunsOneTick ==
  [][(cycle'.n = cycle.n + 1 /\ cycle'.fetched /\ cycle'.evaluated)
       => (ticks' = ticks + 1)]_vars

\* C11: in an evaluation, the profit of each direction is sell_revenue -
\* sell_revenue * fee_sell - buy_cost - buy_cost * fee_buy, with the buy
\* venue's buy_cost and the sell venue's sell_revenue; the mirror direction
\* swaps the venues and their fees.
C11_ProfitNetOfBothFees ==
  cycle.evaluated =>
    LET r == Val(cycle.result)
    IN /\ r.kucoin_to_pancakeswap.profit
            = (10000 - PANCAKESWAP_FEE_E4) * cycle.x.sell_revenue
                - (10000 + KUCOIN_FEE_E4) * cycle.k.buy_cost
       /\ r.pancakeswap_to_kucoin.profit
            = (10000 - KUCOIN_FEE_E4) * cycle.k.sell_revenue
                - (10000 + PANCAKESWAP_FEE_E4) * cycle.x.buy_cost

C11_Witness ==
  /\ cycle.op = "main_cycle" /\ cycle.evaluated
  /\ cycle.x.sell_revenue # cycle.x.buy_cost
  /\ Val(cycle.result).kucoin_to_pancakeswap.profit > 0
  /\ Val(cycle.result).pancakeswap_to_kucoin.profit < 0

\* C12: in an evaluation, the profit_percentage of each direction is
\* profit / (buy_cost + buy_cost * fee_buy) * 100.  With the percentage kept
\* as profit / den (in hundredths of a percent when profit is in 1/10000),
\* this says den = buy_cost * (1 + fee_buy) whenever the profit is not zero.
C12_PercentageOfTotalBuyLeg ==
  cycle.evaluated =>
    LET r == Val(cycle.result)
        a == r.kucoin_to_pancakeswap
        b == r.pancakeswap_to_kucoin
    IN /\ a.profit_percentage.num = a.profit
       /\ a.profit # 0 =>
            10000 * a.profit_percentage.den
              = (10000 + KUCOIN_FEE_E4) * cycle.k.buy_cost
       /\ b.profit_percentage.num = b.profit
       /\ b.profit # 0 =>
            10000 * b.profit_percentage.den
              = (10000 + PANCAKESWAP_FEE_E4) * cycle.x.buy_cost

\* The percentage of a direction of the last evaluation is above the
\* threshold (both sides multiplied by the positive denominator).
Qualifies(dir) ==
  dir.profit_percentage.num
    > ARBITRAGE_THRESHOLD_E2 * dir.profit_percentage.den

Opportunities(msgs) == SelectSeq(msgs, LAMBDA m : m.kind = "opportunity")

Values(lines) == [i \in 1..Len(lines) |-> lines[i].value]

\* C15: for each qualifying direction the alert lists, in this order, the buy
\* venue's buy cost, the buy fee (buy cost * buy fee), the sell venue's sell
\* revenue, the sell fee (sell revenue * sell fee), the net profit and the
\* net profit percentage, each being the value of that direction's profit
\* computation (amounts as formatted, in cents).
C15_AlertItemisesTheComputation ==
  (cycle.op = "main_cycle" /\ cycle.alert) =>
    LET r == Val(cycle.result)
        body == Opportunities(cycle.handed)[1].body
    IN \A i \in 1..Len(body) :
         Values(body[i].lines)
           = IF body[i].direction = "kucoin_to_pancakeswap"
               THEN << Format2(10000 * cycle.k.buy_cost),
                       Format2(KUCOIN_FEE_E4 * cycle.k.buy_cost),
                       Format2(10000 * cycle.x.sell_revenue),
                       Format2(PANCAKESWAP_FEE_E4 * cycle.x.sell_revenue),
                       Format2(r.kucoin_to_pancakeswap.profit),
                       FormatPrice(r.kucoin_to_pancakeswap.profit_percentage) >>
               ELSE << Format2(10000 * cycle.x.buy_cost),
                       Format2(PANCAKESWAP_FEE_E4 * cycle.x.buy_cost),
                       Format2(10000 * cycle.k.sell_revenue),
                       Format2(KUCOIN_FEE_E4 * cycle.k.sell_revenue),
                       Format2(r.pancakeswap_to_kucoin.profit),
                       FormatPrice(r.pancakeswap_to_kucoin.profit_percentage) >>

C22_FailedFetchSkipsEvaluation ==
  [][(cycle'.op = "main_cycle" /\ cycle'.n = cycle.n + 1) =>
       /\ cycle'.quote_failed =>
            /\ ~cycle'.evaluated
            /\ cycle'.error
            /\ Opportunities(cycle'.handed) = <<>>
            /\ Opportunities(sent') = Opportunities(sent)
       /\ cycle'.evaluated =>
            /\ ~cycle'.quote_failed
            /\ cycle'.k \in KQuotes /\ cycle'.x \in PQuotes]_vars

C22_Witness ==
  /\ cycle.op = "main_cycle" /\ cycle.n = 2
  /\ cycle.quote_failed /\ cycle.fetched
  /\ cycle.k \in KQuotes /\ cycle.x = NoQuote
  /\ ~cycle.evaluated
  /\ Len(Opportunities(sent)) = 1

(***************************************************************************)
(* Properties of the chat buttons (checked under SpecChat).                *)
(***************************************************************************)
\* C16: running the evaluation and its gate from the 'arbitrage' button or
\* from the full report sends nothing to the chat by itself: no opportunity
\* alert is handed to send_message by these operations.
C16_EvaluationSendsNothing ==
  [][(cycle'.n = cycle.n + 1 /\ cycle'.op \in {"arbitrage", "report"})
       => /\ Opportunities(cycle'.handed) = <<>>
          /\ Opportunities(sent') = Opportunities(sent)]_vars

(***************************************************************************)
(* Properties of the price adapters (checked under SpecQuote).             *)
(***************************************************************************)
RECURSIVE SumQuantity(_)
SumQuantity(levels) ==
  IF levels = <<>> THEN 0
  ELSE Head(levels).quantity + SumQuantity(Tail(levels))

Min(a, b) == IF a <= b THEN a ELSE b

\* The quantity taken from level i when `size` is filled in book order.
Consumed(levels, size, i) ==
  Min(levels[i].quantity,
      Max(0, size - SumQuantity(SubSeq(levels, 1, i - 1))))

RECURSIVE SumConsumed(_, _, _)
SumConsumed(levels, size, i) ==
  IF i = 0 THEN 0
  ELSE Consumed(levels, size, i) + SumConsumed(levels, size, i - 1)

RECURSIVE SumCost(_, _, _)
SumCost(levels, size, i) ==
  IF i = 0 THEN 0
  ELSE levels[i].price * Consumed(levels, size, i)
         + SumCost(levels, size, i - 1)

\* C18: the order-book quote fails whenever the summed ask quantity or the
\* summed bid quantity of the book is smaller than the trade size.
C18_ShallowBookFailsTheQuote ==
  (/\ venue.op = "kucoin"
   /\ \/ SumQuantity(venue.order_book.asks) < venue.pols_quantity
      \/ SumQuantity(venue.order_book.bids) < venue.pols_quantity)
  => ~venue.quote.ok

C18_Witness ==
  /\ venue.op = "kucoin"
  /\ SumQuantity(venue.order_book.asks) >= venue.pols_quantity
  /\ venue.order_book.bids # <<>>
  /\ SumQuantity(venue.order_book.bids) < venue.pols_quantity
  /\ ~venue.quote.ok

\* C19: for a book deep enough on both sides, buy_cost is the sum over the
\* ask levels, in book order, of price * consumed quantity, the consumed
\* quantities being min(level quantity, remaining) and adding up to the
\* trade size; sell_revenue is the same over the bid levels; buy_price and
\* sell_price are buy_cost and sell_revenue divided by the trade size.
C19_QuoteIsDepthWeightedFill ==
  (/\ venue.op = "kucoin"
   /\ SumQuantity(venue.order_book.asks) >= venue.pols_quantity
   /\ SumQuantity(venue.order_book.bids) >= venue.pols_quantity)
  => LET asks == venue.order_book.asks
         bids == venue.order_book.bids
         size == venue.pols_quantity
         q == venue.quote.v
     IN /\ venue.quote.ok
        /\ SumConsumed(asks, size, Len(asks)) = size
        /\ SumConsumed(bids, size, Len(bids)) = size
        /\ FracEq(q.buy_cost, Frac(SumCost(asks, size, Len(asks)), 1))
        /\ FracEq(q.sell_revenue, Frac(SumCost(bids, size, Len(bids)), 1))
        /\ FracEq(q.buy_price, Frac(q.buy_cost.num, q.buy_cost.den * size))
        /\ FracEq(q.sell_price,
                  Frac(q.sell_revenue.num, q.sell_revenue.den * size))

C19_Witness ==
  /\ venue.op = "kucoin" /\ venue.quote.ok
  /\ Len(venue.order_book.asks) = 2
  /\ venue.order_book.asks[1].price # venue.order_book.asks[2].price
  /\ venue.order_book.asks[1].quantity < venue.pols_quantity
  /\ SumQuantity(venue.order_book.asks) > venue.pols_quantity
  /\ venue.quote.v.buy_cost.num
       = venue.order_book.asks[1].price * venue.order_book.asks[1].quantity
         + venue.order_book.asks[2].price
             * (venue.pols_quantity - venue.order_book.asks[1].quantity)

\* Asks ascending, bids descending, best ask above best bid.
NonDegenerateBook(order_book) ==
  /\ order_book.asks # <<>> /\ order_book.bids # <<>>
  /\ \A i \in 1..Len(order_book.asks) - 1 :
        order_book.asks[i].price <= order_book.asks[i + 1].price
  /\ \A i \in 1..Len(order_book.bids) - 1 :
        order_book.bids[i].price >= order_book.bids[i + 1].price
  /\ order_book.asks[1].price > order_book.bids[1].price

RECURSIVE GCD(_, _)
GCD(a, b) == IF b = 0 THEN a ELSE GCD(b, a % b)

\* a fraction in lowest terms
Lowest(f) ==
  IF f.num = 0 THEN Frac(0, 1)
  ELSE Frac(f.num \div GCD(f.num, f.den), f.den \div GCD(f.num, f.den))

\* C29: the pool adapter's spot price is the router's output divided by the
\* trade size, with no slippage in it; its buy and sell prices are the spot
\* price times 1.001 and 0.999; buy_cost and sell_revenue are those prices
\* times the trade size.
C29_PoolQuoteAroundRouterPrice ==
  venue.op = "pancakeswap"
    => LET size == venue.pols_quantity
           spot == Lowest(venue.quote.v.current_price)
           buy == Lowest(venue.quote.v.buy_price)
           sell == Lowest(venue.quote.v.sell_price)
           cost == Lowest(venue.quote.v.buy_cost)
           revenue == Lowest(venue.quote.v.sell_revenue)
       IN /\ venue.quote.ok
          /\ spot.num * size = venue.amount_out * spot.den
          /\ 1000 * buy.num * spot.den = 1001 * spot.num * buy.den
          /\ 1000 * sell.num * spot.den = 999 * spot.num * sell.den
          /\ cost.num * buy.den = buy.num * size * cost.den
          /\ revenue.num * sell.den = sell.num * size * revenue.den

\* the router answered 150 for a trade size of 2: spot price 75
C29_Witness ==
  /\ venue.op = "pancakeswap"
  /\ venue.amount_out = 150
  /\ venue.pols_quantity = 2
  /\ FracEq(venue.quote.v.current_price, Frac(75, 1))
  /\ FracEq(venue.quote.v.buy_cost, Frac(150150, 1000))

(***************************************************************************)
(* Properties of the polling task (checked under SpecCycle, the liveness   *)
(* under SpecCycleLive).                                                   *)
(***************************************************************************)
\* C21: the polling loop never exits because of a failure inside a cycle:
\* the failure is caught, an error notification is handed to the sink
\* (delivered or not), and after the sleep a new cycle begins; infinitely
\* many cycles start.
C21_LoopSurvivesFailures ==
  /\ []<>(loop.pc = "kucoin_price")
  /\ [](loop.pc # "exited")
  /\ (loop.pc = "report_error")
        ~> (loop.pc = "sleep_retry"
              /\ loop.reads.handed[Len(loop.reads.handed)].kind = "error")
  /\ (loop.pc = "sleep_retry") ~> (loop.pc = "kucoin_price")

C21_Witness ==
  /\ loop.pc = "sleep_retry"
  /\ loop.reads.failed
  /\ loop.reads.handed = <<[kind |-> "error", delivered |-> FALSE]>>

\* C23: a set_quantity or set_threshold command handled while a cycle is in
\* flight does not affect it: every quote of the cycle is fetched for one
\* quantity and the gate uses one threshold, those the configuration held
\* when the cycle began; a changed value is used from the next cycle on.
C23_CycleUsesOneConfiguration ==
  /\ [](/\ \A i \in 1..Len(loop.reads.quantities) :
              /\ loop.reads.quantities[i] = loop.reads.started.kucoin
              /\ loop.reads.quantities[i] = loop.reads.started.pancakeswap
        /\ loop.reads.threshold # None =>
              Val(loop.reads.threshold) = loop.reads.started.arbitrage_threshold)
  /\ [][(loop.pc \in {"sleep", "sleep_retry"} /\ loop'.pc = "kucoin_price")
          => loop'.reads.started = config]_vars
  /\ [][loop'.pc = "kucoin_balance"
          => loop'.reads.quantities = <<config.kucoin>>]_vars

C23_Witness ==
  /\ loop.pc = "sleep"
  /\ Len(loop.reads.quantities) = 4
  /\ loop.reads.threshold # None
  /\ loop.reads.handed # <<>>
  /\ config.kucoin # loop.reads.started.kucoin
  /\ config.arbitrage_threshold # loop.reads.started.arbitrage_threshold

\* C32: the order-book adapter, the pool adapter and the notifier hold the
\* same trade size after every set_quantity command, accepted or not.
C32_OneTradeSizeEverywhere ==
  /\ config.kucoin = config.pancakeswap
  /\ config.pancakeswap = config.notifier

\* a command has changed the trade size to 2000
C32_Witness ==
  /\ dialog.last.op = "set_quantity"
  /\ dialog.reply.kind = "quantity_updated"
  /\ config.kucoin = 2000 /\ config.pancakeswap = 2000
  /\ config.notifier = 2000

\* C33: the trade size is always a strictly positive integer and the
\* threshold strictly positive; a command whose argument is missing, not a
\* number, malformed or not positive leaves the configuration unchanged and
\* is answered with a usage or an error reply.
C33_ConfigurationStaysPositive ==
  [][ /\ config'.kucoin \in Nat \ {0}
      /\ config'.pancakeswap \in Nat \ {0}
      /\ config'.notifier \in Nat \ {0}
      /\ config'.arbitrage_threshold > 0
      /\ \A arg \in QuantityArgs :
           ( /\ dialog'.last.op = "set_quantity"
             /\ dialog'.last.text = Some(arg.text)
             /\ arg.text \in {"", "abc", "0"} )
           => /\ config' = config
              /\ dialog'.reply.kind \in {"usage", "must_be_positive", "error"}
      /\ \A arg \in ThresholdArgs :
           ( /\ dialog'.last.op = "set_threshold"
             /\ dialog'.last.text = Some(arg.text)
             /\ arg.text \in {"", "abc", "1.2.3", "0"} )
           => /\ config' = config
              /\ dialog'.reply.kind \in {"usage", "must_be_positive", "error"}
    ]_vars

\* "/set_threshold 1.2.3" was answered with the error reply
C33_Witness ==
  /\ dialog.last.op = "set_threshold"
  /\ dialog.last.text = Some("1.2.3")
  /\ dialog.reply.kind = "error"
  /\ config = InitialConfig

\* C24: within a cycle, the value of a venue's free balance is the free
\* balance times the spot price of the quote obtained for that venue in the
\* same cycle.
C24_BalanceValuedAtCycleQuote ==
  /\ loop.reads.kucoin_balance # None =>
       Val(loop.reads.kucoin_balance).pols_value_usdt
         = Val(loop.reads.kucoin_balance).pols_free
             * Val(loop.reads.kucoin_price).current_price
  /\ loop.reads.pancake_balance # None =>
       Val(loop.reads.pancake_balance).pols_value_usdt
         = Val(loop.reads.pancake_balance).pols_free
             * Val(loop.reads.pancake_price).current_price

====
